---- MODULE Spec2Model ----
(***************************************************************************)
(* Model of the agent runtime: the Orchestrator (answer, _process_plan,    *)
(* _execute_tool_call), the guardrails (sanitize_input, repair_json,       *)
(* extract_tool_call_from_text, validate_output), the tool registries, the *)
(* request counter of AgentLogger and the telemetry port.                  *)
(*                                                                         *)
(* Python text is a TLA+ string; a character is a string of length one.    *)
(* A Python value is a record [t, s, n, kv]: t is the type tag, s the text *)
(* of a str, n the number of an int, kv the items of a dict or list in     *)
(* insertion order.                                                        *)
(***************************************************************************)
EXTENDS Integers, Sequences, FiniteSets, TLC

(* ------------------------------ bounds -------------------------------- *)

\* number of answer calls one behaviour makes
MaxRequests == 2

\* number of register/unregister calls one behaviour makes
MaxRegistryOps == 3

\* largest max_attempts of a retry policy
MaxAttempts == 3

\* the threads running at the same time
NumThreads == 2

\* largest attempt number a delay is computed for
MaxAttemptNumber == 6

(* --------------------------- Python values ---------------------------- *)

PyNone == [t |-> "none", s |-> "", n |-> 0, kv |-> <<>>]

PyStr(text) == [t |-> "str", s |-> text, n |-> 0, kv |-> <<>>]

PyInt(num) == [t |-> "int", s |-> "", n |-> num, kv |-> <<>>]

PyBool(b) == [t |-> "bool", s |-> "", n |-> IF b THEN 1 ELSE 0, kv |-> <<>>]

PyDict(items) == [t |-> "dict", s |-> "", n |-> 0, kv |-> items]

PyList(items) == [t |-> "list", s |-> "", n |-> 0, kv |-> items]

\* an object json cannot serialize; text is what str() gives for it
PyObj(text) == [t |-> "obj", s |-> text, n |-> 0, kv |-> <<>>]

\* one item of a dict (k is the key) or of a list (k is "")
Item(key, val) == [k |-> key, v |-> val]

\* "key in d" for a dict
DictHas(d, key) == \E i \in 1..Len(d.kv) : d.kv[i].k = key

\* d[key], for a key that is in d
DictGet(d, key) == d.kv[CHOOSE i \in 1..Len(d.kv) : d.kv[i].k = key].v

\* d[key] = val on the item sequence: a new key is appended, an existing
\* key keeps its position and takes the new value
DictSet(items, key, val) ==
    IF \E i \in 1..Len(items) : items[i].k = key
    THEN [i \in 1..Len(items) |->
            IF items[i].k = key THEN Item(key, val) ELSE items[i]]
    ELSE Append(items, Item(key, val))

\* Python truthiness of a value ("if result")
Truthy(val) ==
    CASE val.t = "none" -> FALSE
      [] val.t = "str"  -> val.s # ""
      [] val.t = "int"  -> val.n # 0
      [] val.t = "bool" -> val.n # 0
      [] OTHER          -> Len(val.kv) > 0

(* ------------------------------- text --------------------------------- *)

CharAt(text, i) == SubSeq(text, i, i)

Digits == <<"0", "1", "2", "3", "4", "5", "6", "7", "8", "9">>

DigitChars == {Digits[i] : i \in 1..10}

LetterChars ==
    {"a","b","c","d","e","f","g","h","i","j","k","l","m",
     "n","o","p","q","r","s","t","u","v","w","x","y","z",
     "A","B","C","D","E","F","G","H","I","J","K","L","M",
     "N","O","P","Q","R","S","T","U","V","W","X","Y","Z"}

\* the regular expression class \w
WordChars == LetterChars \cup DigitChars \cup {"_"}

\* the regular expression class \s, and what str.strip() removes
SpaceChars == {" ", "\t", "\n", "\r", "\f"}

RECURSIVE NatToStr(_)
NatToStr(num) ==
    IF num < 10 THEN Digits[num + 1]
    ELSE NatToStr(num \div 10) \o Digits[(num % 10) + 1]

\* str(n) for an int
IntToStr(num) == IF num < 0 THEN "-" \o NatToStr(0 - num) ELSE NatToStr(num)

\* the value of a digit character
DigitVal(c) == (CHOOSE i \in 1..10 : Digits[i] = c) - 1

RECURSIVE LStrip(_)
LStrip(text) ==
    IF Len(text) > 0 /\ CharAt(text, 1) \in SpaceChars
    THEN LStrip(SubSeq(text, 2, Len(text)))
    ELSE text

RECURSIVE RStrip(_)
RStrip(text) ==
    IF Len(text) > 0 /\ CharAt(text, Len(text)) \in SpaceChars
    THEN RStrip(SubSeq(text, 1, Len(text) - 1))
    ELSE text

\* str.strip()
Strip(text) == RStrip(LStrip(text))

\* text[:limit]
Truncate(text, limit) == IF Len(text) > limit THEN SubSeq(text, 1, limit) ELSE text

\* text starts with prefix at position i
StartsWithAt(text, i, prefix) ==
    /\ i + Len(prefix) - 1 <= Len(text)
    /\ SubSeq(text, i, i + Len(prefix) - 1) = prefix

RECURSIVE JoinStr(_, _)
\* sep.join(seq)
JoinStr(seq, sep) ==
    IF Len(seq) = 0 THEN ""
    ELSE IF Len(seq) = 1 THEN seq[1]
    ELSE seq[1] \o sep \o JoinStr(Tail(seq), sep)

(* -------------------------- json (library) ---------------------------- *)
(* json.loads on the JSON subset the plans use: objects, arrays, strings   *)
(* without escapes, integers and the literals true, false and null.       *)

JsonSpace == {" ", "\t", "\n", "\r"}

\* the first position at or after i whose character is not in class
RunEnd(text, i, class) ==
    CHOOSE j \in i..(Len(text) + 1) :
        /\ \A k \in i..(j - 1) : CharAt(text, k) \in class
        /\ (j = Len(text) + 1 \/ CharAt(text, j) \notin class)

\* the first position at or after i whose character is c
RunEndNot(text, i, c) ==
    CHOOSE j \in i..(Len(text) + 1) :
        /\ \A k \in i..(j - 1) : CharAt(text, k) # c
        /\ (j = Len(text) + 1 \/ CharAt(text, j) = c)

ParseFail == [ok |-> FALSE, v |-> PyNone, i |-> 0]

ParseOk(val, next) == [ok |-> TRUE, v |-> val, i |-> next]

RECURSIVE DigitsToNat(_, _)
DigitsToNat(text, acc) ==
    IF text = "" THEN acc
    ELSE DigitsToNat(SubSeq(text, 2, Len(text)), acc * 10 + DigitVal(CharAt(text, 1)))

\* a string literal whose opening quote is at i
ParseString(text, i) ==
    LET j == RunEndNot(text, i + 1, "\"")
        body == SubSeq(text, i + 1, j - 1)
    IN  IF j > Len(text) THEN ParseFail
        ELSE IF \E k \in 1..Len(body) : CharAt(body, k) \in {"\\", "\n", "\t", "\r"}
        THEN ParseFail
        ELSE ParseOk(PyStr(body), j + 1)

\* an integer starting at i
ParseNumber(text, i) ==
    LET neg == CharAt(text, i) = "-"
        d   == IF neg THEN i + 1 ELSE i
        e   == IF d <= Len(text) /\ CharAt(text, d) = "0" THEN d + 1
               ELSE RunEnd(text, d, DigitChars)
        mag == DigitsToNat(SubSeq(text, d, e - 1), 0)
    IN  IF e = d THEN ParseFail
        ELSE ParseOk(PyInt(IF neg THEN 0 - mag ELSE mag), e)

RECURSIVE ParseValue(_, _)
RECURSIVE ParseMembers(_, _, _)
RECURSIVE ParseElements(_, _, _)

\* the members of an object, i at the first character of a key
ParseMembers(text, i, acc) ==
    LET \* after the value: "}" ends the object, "," starts the next member
        AfterValue(got, e) ==
            IF e > Len(text) THEN ParseFail
            ELSE IF CharAt(text, e) = "}" THEN ParseOk(PyDict(got), e + 1)
            ELSE IF CharAt(text, e) = ","
            THEN ParseMembers(text, RunEnd(text, e + 1, JsonSpace), got)
            ELSE ParseFail
        WithValue(key, val) ==
            IF ~val.ok THEN ParseFail
            ELSE AfterValue(DictSet(acc, key.v.s, val.v), RunEnd(text, val.i, JsonSpace))
        AfterKey(key, c) ==
            IF c > Len(text) \/ CharAt(text, c) # ":" THEN ParseFail
            ELSE WithValue(key, ParseValue(text, RunEnd(text, c + 1, JsonSpace)))
        WithKey(key) ==
            IF ~key.ok THEN ParseFail
            ELSE AfterKey(key, RunEnd(text, key.i, JsonSpace))
    IN  IF i > Len(text) \/ CharAt(text, i) # "\"" THEN ParseFail
        ELSE WithKey(ParseString(text, i))

\* the elements of an array, i at the first character of an element
ParseElements(text, i, acc) ==
    LET \* after the value: "]" ends the array, "," starts the next element
        AfterValue(got, e) ==
            IF e > Len(text) THEN ParseFail
            ELSE IF CharAt(text, e) = "]" THEN ParseOk(PyList(got), e + 1)
            ELSE IF CharAt(text, e) = ","
            THEN ParseElements(text, RunEnd(text, e + 1, JsonSpace), got)
            ELSE ParseFail
        WithValue(val) ==
            IF ~val.ok THEN ParseFail
            ELSE AfterValue(Append(acc, Item("", val.v)), RunEnd(text, val.i, JsonSpace))
    IN  WithValue(ParseValue(text, i))

ParseValue(text, i) ==
    IF i > Len(text) THEN ParseFail
    ELSE LET At(c, n) ==
             CASE c = "\"" -> ParseString(text, i)
               [] c = "{" ->
                    IF n <= Len(text) /\ CharAt(text, n) = "}"
                    THEN ParseOk(PyDict(<<>>), n + 1)
                    ELSE ParseMembers(text, n, <<>>)
               [] c = "[" ->
                    IF n <= Len(text) /\ CharAt(text, n) = "]"
                    THEN ParseOk(PyList(<<>>), n + 1)
                    ELSE ParseElements(text, n, <<>>)
               [] c = "-" \/ c \in DigitChars -> ParseNumber(text, i)
               [] StartsWithAt(text, i, "true")  -> ParseOk(PyBool(TRUE), i + 4)
               [] StartsWithAt(text, i, "false") -> ParseOk(PyBool(FALSE), i + 5)
               [] StartsWithAt(text, i, "null")  -> ParseOk(PyNone, i + 4)
               [] OTHER -> ParseFail
         IN  At(CharAt(text, i), RunEnd(text, i + 1, JsonSpace))

\* json.loads(text): ok is FALSE where it raises JSONDecodeError
json_loads(text) ==
    LET Whole(r) ==
            IF r.ok /\ RunEnd(text, r.i, JsonSpace) = Len(text) + 1 THEN r ELSE ParseFail
    IN  Whole(ParseValue(text, RunEnd(text, 1, JsonSpace)))

RECURSIVE EscapeStr(_)
\* the body of a string literal as json.dumps writes it
EscapeStr(text) ==
    IF text = "" THEN ""
    ELSE LET c == CharAt(text, 1)
             out == CASE c = "\"" -> "\\\""
                      [] c = "\\" -> "\\\\"
                      [] c = "\n" -> "\\n"
                      [] c = "\t" -> "\\t"
                      [] c = "\r" -> "\\r"
                      [] OTHER    -> c
         IN  out \o EscapeStr(SubSeq(text, 2, Len(text)))

RECURSIVE Spaces(_)
Spaces(count) == IF count = 0 THEN "" ELSE " " \o Spaces(count - 1)

\* whether json.dumps accepts the value (it raises TypeError on an object)
RECURSIVE Serializable(_)
Serializable(val) ==
    /\ val.t # "obj"
    /\ \A i \in 1..Len(val.kv) : Serializable(val.kv[i].v)

RECURSIVE json_dumps(_, _, _)
RECURSIVE DumpItems(_, _, _, _)

\* the items of a dict or list, one per line at the given depth
DumpItems(items, isDict, indent, depth) ==
    LET line(i) == Spaces(indent * depth)
                   \o (IF isDict THEN "\"" \o EscapeStr(items[i].k) \o "\": " ELSE "")
                   \o json_dumps(items[i].v, indent, depth)
    IN  JoinStr([i \in 1..Len(items) |-> line(i)], ",\n")

\* json.dumps(val, indent=indent) for a serializable value nested at depth
json_dumps(val, indent, depth) ==
    CASE val.t = "none" -> "null"
      [] val.t = "str"  -> "\"" \o EscapeStr(val.s) \o "\""
      [] val.t = "int"  -> IntToStr(val.n)
      [] val.t = "bool" -> IF val.n = 1 THEN "true" ELSE "false"
      [] val.t = "dict" ->
            IF Len(val.kv) = 0 THEN "{}"
            ELSE "{\n" \o DumpItems(val.kv, TRUE, indent, depth + 1)
                 \o "\n" \o Spaces(indent * depth) \o "}"
      [] val.t = "list" ->
            IF Len(val.kv) = 0 THEN "[]"
            ELSE "[\n" \o DumpItems(val.kv, FALSE, indent, depth + 1)
                 \o "\n" \o Spaces(indent * depth) \o "]"

RECURSIVE ReprBody(_, _)
\* the body of repr(text) between quotes of the kind quote
ReprBody(text, quote) ==
    IF text = "" THEN ""
    ELSE LET Esc(c) ==
                 CASE c = "\\" -> "\\\\"
                   [] c = "\n" -> "\\n"
                   [] c = "\t" -> "\\t"
                   [] c = "\r" -> "\\r"
                   [] c = quote -> "\\" \o quote
                   [] OTHER    -> c
         IN  Esc(CharAt(text, 1)) \o ReprBody(SubSeq(text, 2, Len(text)), quote)

\* repr(text) for a str: single quotes, double quotes where the text has a
\* single quote and no double quote
ReprStr(text) ==
    LET Has(c) == \E i \in 1..Len(text) : CharAt(text, i) = c
        Quoted(q) == q \o ReprBody(text, q) \o q
    IN  Quoted(IF Has("'") /\ ~Has("\"") THEN "\"" ELSE "'")

RECURSIVE py_repr(_)
\* repr(val)
py_repr(val) ==
    CASE val.t = "none" -> "None"
      [] val.t = "str"  -> ReprStr(val.s)
      [] val.t = "int"  -> IntToStr(val.n)
      [] val.t = "bool" -> IF val.n = 1 THEN "True" ELSE "False"
      [] val.t = "dict" ->
            "{" \o JoinStr([i \in 1..Len(val.kv) |->
                               ReprStr(val.kv[i].k) \o ": " \o py_repr(val.kv[i].v)],
                           ", ") \o "}"
      [] val.t = "list" ->
            "[" \o JoinStr([i \in 1..Len(val.kv) |-> py_repr(val.kv[i].v)], ", ")
            \o "]"
      [] OTHER -> val.s

\* str(val)
py_str(val) == IF val.t = "str" THEN val.s ELSE py_repr(val)

(* ----------------------------- guardrails ----------------------------- *)

\* the length limit of sanitize_input
SanitizeLimit == 10000

\* sanitize_input cutting to the limit before it strips
sanitize_input_cutfirst(text) == Strip(Truncate(text, SanitizeLimit))

\* sanitize_input(text) for a str
sanitize_input(text) == Truncate(Strip(text), SanitizeLimit)

\* validate_tool_call(data)
validate_tool_call(data) == data.t = "dict" /\ DictHas(data, "tool")

RECURSIVE ReSubComma(_, _, _)
\* re.sub(r',\s*' + closer, closer, text), scanning from position i
ReSubComma(text, i, closer) ==
    IF i > Len(text) THEN ""
    ELSE LET j == RunEnd(text, i + 1, SpaceChars)
         IN  IF CharAt(text, i) = "," /\ j <= Len(text) /\ CharAt(text, j) = closer
             THEN closer \o ReSubComma(text, j + 1, closer)
             ELSE CharAt(text, i) \o ReSubComma(text, i + 1, closer)

\* the list "repairs" of repair_json in another order: the commas first
Repairs_commafirst(s) ==
    << ReSubComma(s, 1, "}"),
       ReSubComma(s, 1, "]"),
       s \o "}",
       s \o "\"",
       s \o "]" >>

\* the list "repairs" of repair_json applied to s, in its order
Repairs(s) ==
    << s \o "}",
       s \o "\"",
       s \o "]",
       ReSubComma(s, 1, "}"),
       ReSubComma(s, 1, "]") >>

\* repair_json(text): the parsed value, PyNone where it returns None
repair_json(text) ==
    LET \* the first repair that parses
        FirstGood(parsed, good) ==
            IF good = {} THEN PyNone
            ELSE parsed[CHOOSE i \in good : \A j \in good : i <= j].v
        Pick(parsed) == FirstGood(parsed, {i \in DOMAIN parsed : parsed[i].ok})
        Repaired(tries) == Pick([i \in 1..Len(tries) |-> json_loads(tries[i])])
        AsIs(r) == IF r.ok THEN r.v ELSE Repaired(Repairs(Strip(text)))
    IN  IF text = "" THEN PyNone ELSE AsIs(json_loads(text))

\* re.search(r'TOOL:(\w+)\s+(\w+)="([^"]*)"', text) tried at position p
ToolPatternAt(text, p) ==
    LET a == p + 5
        b == RunEnd(text, a, WordChars)
        c == RunEnd(text, b, SpaceChars)
        d == RunEnd(text, c, WordChars)
        e == RunEndNot(text, d + 2, "\"")
    IN  IF /\ StartsWithAt(text, p, "TOOL:")
           /\ b > a /\ c > b /\ d > c
           /\ StartsWithAt(text, d, "=\"")
           /\ e <= Len(text)
        THEN [found |-> TRUE, tool |-> SubSeq(text, a, b - 1),
              arg |-> SubSeq(text, c, d - 1), value |-> SubSeq(text, d + 2, e - 1)]
        ELSE [found |-> FALSE, tool |-> "", arg |-> "", value |-> ""]

\* the leftmost match of the TOOL pattern in text
ToolPatternSearch(text) ==
    LET Leftmost(hits) ==
            ToolPatternAt(text, IF hits = {} THEN Len(text) + 1
                                ELSE CHOOSE p \in hits : \A q \in hits : p <= q)
    IN  Leftmost({p \in 1..Len(text) : ToolPatternAt(text, p).found})

LowerOf ==
    [c \in LetterChars |->
        CASE c = "A" -> "a" [] c = "B" -> "b" [] c = "C" -> "c" [] c = "D" -> "d"
          [] c = "E" -> "e" [] c = "F" -> "f" [] c = "G" -> "g" [] c = "H" -> "h"
          [] c = "I" -> "i" [] c = "J" -> "j" [] c = "K" -> "k" [] c = "L" -> "l"
          [] c = "M" -> "m" [] c = "N" -> "n" [] c = "O" -> "o" [] c = "P" -> "p"
          [] c = "Q" -> "q" [] c = "R" -> "r" [] c = "S" -> "s" [] c = "T" -> "t"
          [] c = "U" -> "u" [] c = "V" -> "v" [] c = "W" -> "w" [] c = "X" -> "x"
          [] c = "Y" -> "y" [] c = "Z" -> "z" [] OTHER -> c]

RECURSIVE Lower(_)
\* str.lower()
Lower(text) ==
    IF text = "" THEN ""
    ELSE (IF CharAt(text, 1) \in LetterChars THEN LowerOf[CharAt(text, 1)]
          ELSE CharAt(text, 1))
         \o Lower(SubSeq(text, 2, Len(text)))

\* extract_tool_call_from_text looking for the TOOL pattern first
extract_tool_call_from_text_patternfirst(text) ==
    LET Matched(m, result) ==
            IF m.found
            THEN PyDict(<< Item("tool", PyStr(m.tool)),
                           Item("args", PyDict(<< Item(Lower(m.arg), PyStr(m.value)) >>)) >>)
            ELSE IF Truthy(result) /\ validate_tool_call(result) THEN result
            ELSE PyNone
    IN  Matched(ToolPatternSearch(text), repair_json(text))

\* extract_tool_call_from_text(text): a dict, PyNone where it returns None
extract_tool_call_from_text(text) ==
    LET Matched(m) ==
            IF m.found
            THEN PyDict(<< Item("tool", PyStr(m.tool)),
                           Item("args", PyDict(<< Item(Lower(m.arg), PyStr(m.value)) >>)) >>)
            ELSE PyNone
        Repaired(result) ==
            IF Truthy(result) /\ validate_tool_call(result) THEN result
            ELSE Matched(ToolPatternSearch(text))
    IN  Repaired(repair_json(text))

\* validate_output without its "output is None" branch: None is serialized
validate_output_nonone(output) ==
    CASE output.t = "int"  -> IntToStr(output.n)
      [] output.t = "bool" -> IF output.n = 1 THEN "True" ELSE "False"
      [] output.t = "str"  -> output.s
      [] OTHER -> IF Serializable(output) THEN json_dumps(output, 2, 0)
                  ELSE py_str(output)

\* validate_output rendering a number through float()
validate_output_float(output) ==
    CASE output.t = "none" -> "No result"
      [] output.t = "int"  -> IntToStr(output.n) \o ".0"
      [] output.t = "bool" -> IF output.n = 1 THEN "True" ELSE "False"
      [] output.t = "str"  -> output.s
      [] OTHER -> IF Serializable(output) THEN json_dumps(output, 2, 0)
                  ELSE py_str(output)

\* validate_output without its "isinstance(output, str)" branch
validate_output_nostr(output) ==
    CASE output.t = "none" -> "No result"
      [] output.t = "int"  -> IntToStr(output.n)
      [] output.t = "bool" -> IF output.n = 1 THEN "True" ELSE "False"
      [] OTHER -> IF Serializable(output) THEN json_dumps(output, 2, 0)
                  ELSE py_str(output)

\* validate_output(output)
validate_output(output) ==
    CASE output.t = "none" -> "No result"
      [] output.t = "int"  -> IntToStr(output.n)
      [] output.t = "bool" -> IF output.n = 1 THEN "True" ELSE "False"
      [] output.t = "str"  -> output.s
      [] OTHER -> IF Serializable(output) THEN json_dumps(output, 2, 0)
                  ELSE py_str(output)

(* ------------------------------- schemas ------------------------------ *)

ValidationErrorMsg == "validation error for ToolCall"

\* ToolCall(tool=tool, args=args): pydantic accepts a str tool and a dict
\* args and raises ValidationError otherwise
ToolCall(tool, args) ==
    IF tool.t = "str" /\ args.t = "dict"
    THEN [ok |-> TRUE, tool |-> tool.s, args |-> PyDict(args.kv), msg |-> ""]
    ELSE [ok |-> FALSE, tool |-> "", args |-> PyDict(<<>>),
          msg |-> IntToStr((IF tool.t = "str" THEN 0 ELSE 1)
                           + (IF args.t = "dict" THEN 0 ELSE 1))
                  \o " " \o ValidationErrorMsg]

\* plan.get("args", {}) replaced by {}
ArgsOf_dropped(plan) == PyDict(<<>>)

\* plan.get("args", {})
ArgsOf(plan) == IF DictHas(plan, "args") THEN DictGet(plan, "args") ELSE PyDict(<<>>)

(* ------------------------------ registry ------------------------------ *)
(* _tools is a dict from name to tool; it is kept as the sequence of its   *)
(* items [name, impl] in insertion order.                                  *)

\* the tool objects the program registers: two distinct tools share "calc"
Tools ==
    { [name |-> "calc", impl |-> "calc_a"],
      [name |-> "calc", impl |-> "calc_b"],
      [name |-> "kb",   impl |-> "kb_a"],
      [name |-> "my-tool", impl |-> "my_a"] }

ToolNames == {tl.name : tl \in Tools} \cup {"nope"}

\* name in self._tools
has_tool(ts, name) == \E i \in 1..Len(ts) : ts[i].name = name

\* self._tools[name], for a registered name
get_tool(ts, name) == ts[CHOOSE i \in 1..Len(ts) : ts[i].name = name]

\* list(self._tools.keys())
list_tools(ts) == [i \in 1..Len(ts) |-> ts[i].name]

\* register putting the new tool in front of the others
register_front(ts, tool) ==
    IF has_tool(ts, tool.name) THEN ts ELSE << tool >> \o ts

\* core.tool_registry.ToolRegistry.register
register(ts, tool) ==
    IF has_tool(ts, tool.name) THEN ts ELSE Append(ts, tool)

\* agent.registry.ToolRegistry.register: self._tools[tool.name()] = tool
legacy_register(ts, tool) ==
    IF has_tool(ts, tool.name)
    THEN [i \in 1..Len(ts) |-> IF ts[i].name = tool.name THEN tool ELSE ts[i]]
    ELSE Append(ts, tool)

\* unregister without its "del self._tools[name]"
unregister_nodel(ts, name) == ts

\* core.tool_registry.ToolRegistry.unregister: the dict after del
unregister(ts, name) == SelectSeq(ts, LAMBDA tl : tl.name # name)

\* core.tool_registry.ToolRegistry.unregister: the value it returns
unregister_result(ts, name) == has_tool(ts, name)

\* core.tool_registry.ToolRegistry.get_tool for a name that may be absent:
\* the message of the ValueError it raises, "" where it returns the tool
get_tool_error(ts, name) ==
    IF has_tool(ts, name) THEN ""
    ELSE "Tool '" \o name \o "' not found. Available tools: ["
         \o JoinStr([i \in 1..Len(ts) |-> "'" \o ts[i].name \o "'"], ", ") \o "]"

(* ------------------------------- inputs ------------------------------- *)

Questions == {"What is 2+2?", "   What is   2 + 2?   ", ""}

Returns(val) == [raised |-> FALSE, msg |-> "", v |-> val]

Raises(text) == [raised |-> TRUE, msg |-> text, v |-> PyNone]

CalcArgs == PyDict(<< Item("expr", PyStr("2+2")) >>)

\* what the reasoning component may do on one call
LLMResponses ==
    { Raises("LLM Error"),
      Returns(PyStr("Paris is the capital of France.")),
      Returns(PyDict(<< Item("tool", PyStr("calc")), Item("args", CalcArgs) >>)),
      Returns(PyDict(<< Item("tool", PyStr("kb")) >>)),
      Returns(PyDict(<< Item("tool", PyStr("my-tool")) >>)),
      Returns(PyDict(<< Item("tool", PyStr("nope")), Item("args", PyDict(<<>>)) >>)),
      Returns(PyDict(<< Item("tool", PyInt(5)) >>)),
      Returns(PyDict(<< Item("tool", PyStr("calc")), Item("args", PyList(<< Item("", PyInt(1)) >>)) >>)),
      Returns(PyDict(<< Item("answer", PyInt(42)) >>)),
      Returns(PyNone),
      Returns(PyInt(42)),
      Returns(PyStr("{\"tool\":\"calc\",\"args\":{\"expr\":\"2+2\"}")),
      Returns(PyStr("{\"tool\":\"nope\"}")),
      Returns(PyStr("{\"tool\":5}")),
      Returns(PyStr("{\"a\":1,}")),
      Returns(PyStr("TOOL:calc EXPR=\"2+2\"")) }

\* what a tool's execute may do on one call
ToolOutcomes ==
    { Returns(PyInt(4)),
      Returns(PyStr("sunny")),
      Returns(PyNone),
      Returns(PyDict(<< Item("temp", PyInt(21)) >>)),
      Raises("boom") }

\* the telemetry port handed to the Orchestrator: none, a port with
\* log_event only (OTelTelemetry), or one with spans (EnhancedTelemetry);
\* fail names the methods of the port that raise
TelemetryPorts ==
    { [kind |-> "none",   fail |-> {}],
      [kind |-> "events", fail |-> {}],
      [kind |-> "events", fail |-> {"log_event"}],
      [kind |-> "spans",  fail |-> {}],
      [kind |-> "spans",  fail |-> {"log_event"}],
      [kind |-> "spans",  fail |-> {"start_span"}],
      [kind |-> "spans",  fail |-> {"end_span"}] }

TelemetryErrorMsg == "telemetry failure"

(* -------------------------------- state ------------------------------- *)

VARIABLES
    registry_kind,    \* which ToolRegistry class the Orchestrator was given
    tools,            \* ToolRegistry._tools
    reg_ops,          \* register/unregister calls made
    telemetry,        \* the telemetry port
    tel_request_id,   \* EnhancedTelemetry.request_id
    spans,            \* EnhancedTelemetry._spans (ids of the active spans)
    span_seq,         \* spans started so far
    request_counter,  \* AgentLogger.request_counter
    pc,               \* position of the answer call
    question,         \* answer: question
    clean_question,   \* answer: clean_question
    plan,             \* answer: plan
    tool_call,        \* _process_plan: tool_call
    span_id,          \* _execute_tool_call: span_id ("" is None)
    result,           \* answer: result
    exc,              \* the exception being handled
    outcome,          \* what answer gave its caller
    trace,            \* calls made by this answer call, in order
    llm_calls,        \* llm_client.call calls made by this answer call
    invocations,      \* tool.execute calls made by this answer call
    reg_result,       \* what the last register/unregister call returned
    max_iterations,   \* Orchestrator.max_iterations
    last,             \* the answer call before this one, while this one repeats it
    threads,          \* the threads sharing the registry, the logger and the port
    lib               \* a call of a library function made on its own

vars == << registry_kind, tools, reg_ops, telemetry, tel_request_id, spans,
           span_seq, request_counter, pc, question, clean_question, plan, tool_call,
           span_id, result, exc, outcome, trace, llm_calls, invocations,
           reg_result, max_iterations, last, threads, lib >>

NoToolCall == [tool |-> "", args |-> PyDict(<<>>)]

NoOutcome == [kind |-> "none", text |-> ""]

\* this answer call repeats no earlier one; kept: the session remembers the
\* call before, to compare a repeated call with it
NoLast == [set |-> FALSE, kept |-> FALSE]

KeptNoLast == [set |-> FALSE, kept |-> TRUE]

\* the call in progress no longer repeats the one before
Forget(before) == IF before.kept THEN KeptNoLast ELSE NoLast

\* max_iterations: int = 3
DefaultMaxIterations == 3

\* the arguments of Orchestrator(llm_client, registry, telemetry,
\* max_iterations): every registry class and telemetry port with the default
\* max_iterations, and other values of max_iterations
OrchestratorArgs ==
    { [registry |-> kind, telemetry |-> port, max_iterations |-> DefaultMaxIterations] :
        kind \in {"core", "legacy"}, port \in TelemetryPorts }
    \cup { [registry |-> "core", telemetry |-> [kind |-> "none", fail |-> {}],
            max_iterations |-> count] : count \in {0, 1} }

\* no library function is being called on its own
NoLibCall == [fn |-> "none"]

Ev(op, x, d) == [op |-> op, x |-> x, d |-> d]

Init ==
    /\ \E given \in OrchestratorArgs :
          /\ registry_kind = given.registry
          /\ telemetry = given.telemetry
          /\ max_iterations = given.max_iterations
    /\ last = NoLast
    /\ threads = <<>>
    /\ tools = <<>>
    /\ reg_ops = 0
    /\ tel_request_id = ""
    /\ spans = {}
    /\ span_seq = 0
    /\ request_counter = 0
    /\ pc = "idle"
    /\ question = ""
    /\ clean_question = ""
    /\ plan = PyNone
    /\ tool_call = NoToolCall
    /\ span_id = ""
    /\ result = PyNone
    /\ exc = ""
    /\ outcome = NoOutcome
    /\ trace = <<>>
    /\ llm_calls = <<>>
    /\ invocations = <<>>
    /\ reg_result = PyNone
    /\ lib = NoLibCall

(* ------------------------------ telemetry ----------------------------- *)

\* "if self.telemetry"
HasTelemetry == telemetry.kind # "none"

\* hasattr(self.telemetry, 'start_span'), 'set_request_id', 'log_llm_call'
HasSpans == telemetry.kind = "spans"

\* the port's method raises when called
Fails(method) == HasTelemetry /\ method \in telemetry.fail

\* f"{self.session_id}_req_{self.request_counter:04d}"
RequestId(counter) ==
    "session_req_"
    \o (IF counter < 10 THEN "000" ELSE IF counter < 100 THEN "00"
        ELSE IF counter < 1000 THEN "0" ELSE "")
    \o IntToStr(counter)

\* f"{span_name}_{int(time.time() * 1000000)}", the clock being span_seq
SpanId(seq) == "tool_execution_" \o IntToStr(seq)

\* end_span leaving the span among the active ones
end_span_keep(active, id) == active

\* EnhancedTelemetry.end_span: self._spans.pop(span_id), nothing for an
\* unknown id
end_span(active, id) == active \ {id}

(* ------------------------------ registry ops -------------------------- *)

\* no answer call is running: none was made yet, or the last one has
\* returned ("done") and nothing happened since
Idle == pc \in {"idle", "done"}

\* the locals of an answer call that has returned, and what it gave its
\* caller, are gone once the program goes on
ForgetRequest ==
    /\ question' = ""
    /\ clean_question' = ""
    /\ plan' = PyNone
    /\ tool_call' = NoToolCall
    /\ span_id' = ""
    /\ result' = PyNone
    /\ exc' = ""
    /\ outcome' = NoOutcome
    /\ trace' = <<>>
    /\ llm_calls' = <<>>
    /\ invocations' = <<>>

\* registry.register(tool)
Register(tool) ==
    /\ Idle
    /\ reg_ops < MaxRegistryOps
    /\ reg_ops' = reg_ops + 1
    /\ pc' = "idle"
    /\ tools' = IF registry_kind = "core" THEN register(tools, tool)
                ELSE legacy_register(tools, tool)
    /\ reg_result' = PyNone
    /\ last' = Forget(last)
    /\ ForgetRequest
    /\ UNCHANGED << lib, threads, max_iterations, registry_kind, telemetry, tel_request_id, spans, span_seq,
                    request_counter >>

\* registry.unregister(name), which only the core ToolRegistry has
Unregister(name) ==
    /\ Idle
    /\ registry_kind = "core"
    /\ reg_ops < MaxRegistryOps
    /\ reg_ops' = reg_ops + 1
    /\ pc' = "idle"
    /\ tools' = unregister(tools, name)
    /\ reg_result' = PyBool(unregister_result(tools, name))
    /\ last' = Forget(last)
    /\ ForgetRequest
    /\ UNCHANGED << lib, threads, max_iterations, registry_kind, telemetry, tel_request_id, spans, span_seq,
                    request_counter >>

(* ----------------------------- Orchestrator --------------------------- *)

\* answer, lines 28-34: the request id and the telemetry context
AnswerStart(q) ==
    /\ Idle
    /\ request_counter < MaxRequests
    /\ request_counter' = request_counter + 1
    /\ tel_request_id' = IF HasSpans THEN RequestId(request_counter + 1)
                         ELSE tel_request_id
    /\ question' = q
    /\ clean_question' = ""
    /\ plan' = PyNone
    /\ tool_call' = NoToolCall
    /\ span_id' = ""
    /\ result' = PyNone
    /\ exc' = ""
    /\ outcome' = NoOutcome
    /\ trace' = <<>>
    /\ llm_calls' = <<>>
    /\ invocations' = <<>>
    /\ pc' = "sanitize"
    /\ reg_result' = PyNone
    /\ last' = IF last.kept /\ pc = "done" /\ q = question
               THEN [set |-> TRUE, kept |-> TRUE, question |-> question,
                     llm_calls |-> llm_calls, invocations |-> invocations,
                     outcome |-> outcome]
               ELSE Forget(last)
    /\ UNCHANGED << lib, threads, max_iterations, registry_kind, tools, reg_ops, telemetry, spans, span_seq >>

\* answer, lines 37-50: sanitize the input, report it and the tools
Sanitize ==
    /\ pc = "sanitize"
    /\ LET clean == sanitize_input(question)
           did   == << Ev("sanitize_input", clean, "") >>
       IN  IF Fails("log_event")
           THEN /\ trace' = trace \o did
                /\ exc' = TelemetryErrorMsg
                /\ pc' = "handler"
           ELSE /\ trace' = trace \o did \o
                      (IF HasTelemetry
                       THEN << Ev("log_event", "question_received", clean),
                               Ev("log_event", "available_tools",
                                  JoinStr(list_tools(tools), ", ")) >>
                       ELSE <<>>)
                /\ exc' = exc
                /\ pc' = "call_llm"
    /\ clean_question' = sanitize_input(question)
    /\ UNCHANGED << lib, threads, last, max_iterations, reg_result, registry_kind, tools, reg_ops, telemetry, tel_request_id,
                    spans, span_seq, request_counter, question, plan, tool_call,
                    span_id, result, outcome, llm_calls,
                    invocations >>

\* a deterministic reasoning component gives r again: the answer call
\* before asked the same prompt and was given r
LLMRepeats(r) ==
    /\ last.set
    /\ last.llm_calls # <<>> =>
          (last.llm_calls[1].prompt = clean_question => last.llm_calls[1].out = r)

\* answer, lines 52-65: ask the reasoning component for a plan
CallLLM ==
    /\ pc = "call_llm"
    /\ \E r \in LLMResponses :
          /\ trace' = Append(trace, Ev("llm.call", clean_question, ""))
          /\ llm_calls' = Append(llm_calls, [prompt |-> clean_question, out |-> r])
          /\ last' = IF LLMRepeats(r) THEN last ELSE Forget(last)
          /\ IF r.raised
             THEN /\ exc' = r.msg
                  /\ plan' = plan
                  /\ pc' = "handler"
             ELSE /\ exc' = exc
                  /\ plan' = r.v
                  /\ pc' = "process_plan"
    /\ UNCHANGED << lib, threads, max_iterations, reg_result, registry_kind, tools, reg_ops, telemetry, tel_request_id,
                    spans, span_seq, request_counter, question, clean_question, tool_call,
                    span_id, result, outcome, invocations >>

\* _process_plan, lines 101-118, up to the call of _execute_tool_call:
\* an invocation, the plan as the final answer, or a raised ValidationError
process_plan(p) ==
    LET Final == [kind |-> "final", tool |-> "", args |-> PyDict(<<>>), msg |-> ""]
        Built(call) ==
            IF call.ok
            THEN [kind |-> "invoke", tool |-> call.tool, args |-> call.args, msg |-> ""]
            ELSE [kind |-> "raise", tool |-> "", args |-> PyDict(<<>>), msg |-> call.msg]
        \* ToolCall(tool=src["tool"], args=src.get("args", {}))
        From(src) == Built(ToolCall(DictGet(src, "tool"), ArgsOf(src)))
        FromText(tool_data) == IF Truthy(tool_data) THEN From(tool_data) ELSE Final
    IN  IF p.t = "dict" /\ DictHas(p, "tool") THEN From(p)
        ELSE IF p.t = "str" THEN FromText(extract_tool_call_from_text(p.s))
        ELSE Final

\* answer, line 68: interpret the plan
ProcessPlan ==
    /\ pc = "process_plan"
    /\ LET Took(r) ==
               /\ trace' = Append(trace, Ev("process_plan", r.kind, r.tool))
               /\ tool_call' = IF r.kind = "invoke" THEN [tool |-> r.tool, args |-> r.args]
                               ELSE tool_call
               /\ result' = IF r.kind = "final" THEN plan ELSE result
               /\ exc' = IF r.kind = "raise" THEN r.msg ELSE exc
               /\ pc' = CASE r.kind = "invoke" -> "exec_start"
                          [] r.kind = "final"  -> "validate"
                          [] OTHER             -> "handler"
       IN  Took(process_plan(plan))
    /\ UNCHANGED << lib, threads, last, max_iterations, reg_result, registry_kind, tools, reg_ops, telemetry, tel_request_id,
                    spans, span_seq, request_counter, question, clean_question, plan, span_id,
                    outcome, llm_calls,
                    invocations >>

\* _execute_tool_call, lines 122-130: start the span, outside the try
ExecStart ==
    /\ pc = "exec_start"
    /\ IF ~HasSpans
       THEN /\ pc' = "exec_try"
            /\ UNCHANGED << span_id, spans, span_seq, trace, exc >>
       ELSE IF Fails("start_span")
       THEN /\ exc' = TelemetryErrorMsg
            /\ pc' = "handler"
            /\ UNCHANGED << span_id, spans, span_seq, trace >>
       ELSE /\ span_seq' = span_seq + 1
            /\ span_id' = SpanId(span_seq + 1)
            /\ spans' = spans \cup {SpanId(span_seq + 1)}
            /\ trace' = Append(trace, Ev("start_span", tool_call.tool, ""))
            /\ pc' = "exec_try"
            /\ exc' = exc
    /\ UNCHANGED << lib, threads, last, max_iterations, reg_result, registry_kind, tools, reg_ops, telemetry, tel_request_id,
                    request_counter, question, clean_question, plan, tool_call, result, outcome,
                    llm_calls,
                    invocations >>

\* the not-found text without the available tools
NotFoundMsg_nolist(name, ts) == "Tool '" \o name \o "' not found."

\* f"Tool '{tool}' not found. Available tools: {', '.join(available_tools)}"
NotFoundMsg(name, ts) ==
    "Tool '" \o name \o "' not found. Available tools: " \o JoinStr(list_tools(ts), ", ")

\* f"Tool execution error: {str(e)}"
ToolErrorText(e) == "Tool execution error: " \o e

\* f"Error: {str(e)}" without its prefix
ErrorText_noprefix(e) == e

\* the error text carrying the request id
ErrorText_tagged(e) == "Error: " \o e \o " [" \o RequestId(request_counter) \o "]"

\* f"Error: {str(e)}"
ErrorText(e) == "Error: " \o e

\* the except clause of answer ending in "raise" instead of "return error_msg"
HandlerOutcome_reraise(e) == [kind |-> "raised", text |-> e]

\* the except clause of answer ends in "return error_msg"
HandlerOutcome(e) == [kind |-> "returned", text |-> ErrorText(e)]

HasToolAttributeError == "'ToolRegistry' object has no attribute 'has_tool'"

\* a deterministic tool gives out again: the answer call before made the
\* same invocation and was given out, or no invocation is made now
ToolRepeats(out) ==
    /\ last.set
    /\ (registry_kind = "core" /\ has_tool(tools, tool_call.tool)
          /\ last.invocations # <<>>) =>
          LET before == last.invocations[1]
          IN  (before.name = tool_call.tool /\ before.args = tool_call.args
                 /\ before.impl = get_tool(tools, tool_call.tool).impl)
              => before.out = out

\* _execute_tool_call, lines 132-174: the body of the try
ExecTry ==
    /\ pc = "exec_try"
    /\ \E out \in ToolOutcomes :
        /\ last' = IF ToolRepeats(out) THEN last ELSE Forget(last)
        /\ LET name  == tool_call.tool
               ended == Ev("end_span", name, "")
           IN  IF registry_kind = "legacy"
               THEN \* the legacy ToolRegistry has no has_tool
                    /\ exc' = HasToolAttributeError
                    /\ pc' = "exec_except"
                    /\ UNCHANGED << result, spans, trace, invocations >>
               ELSE IF ~has_tool(tools, name)
               THEN IF span_id # "" /\ Fails("end_span")
                    THEN /\ exc' = TelemetryErrorMsg
                         /\ pc' = "exec_except"
                         /\ UNCHANGED << result, spans, trace, invocations >>
                    ELSE /\ result' = PyStr(NotFoundMsg(name, tools))
                         /\ spans' = end_span(spans, span_id)
                         /\ trace' = IF span_id # "" THEN Append(trace, ended) ELSE trace
                         /\ pc' = "validate"
                         /\ UNCHANGED << exc, invocations >>
               ELSE LET tool == get_tool(tools, name)
                        ran  == Append(trace, Ev("tool.execute", name, tool.impl))
                        sent == IF HasTelemetry
                                THEN Append(ran, Ev("log_event", "tool_executed", name))
                                ELSE ran
                    IN  /\ invocations' = Append(invocations,
                               [name |-> name, impl |-> tool.impl, args |-> tool_call.args,
                                out |-> out])
                        /\ IF out.raised
                           THEN /\ exc' = out.msg
                                /\ trace' = ran
                                /\ pc' = "exec_except"
                                /\ UNCHANGED << result, spans >>
                           ELSE IF Fails("log_event")
                           THEN /\ exc' = TelemetryErrorMsg
                                /\ trace' = ran
                                /\ pc' = "exec_except"
                                /\ UNCHANGED << result, spans >>
                           ELSE IF span_id # "" /\ Fails("end_span")
                           THEN /\ exc' = TelemetryErrorMsg
                                /\ trace' = sent
                                /\ pc' = "exec_except"
                                /\ UNCHANGED << result, spans >>
                           ELSE /\ result' = out.v
                                /\ spans' = end_span(spans, span_id)
                                /\ trace' = IF span_id # "" THEN Append(sent, ended) ELSE sent
                                /\ pc' = "validate"
                                /\ exc' = exc
    /\ UNCHANGED << lib, threads, max_iterations, reg_result, registry_kind, tools, reg_ops, telemetry, tel_request_id,
                    span_seq, request_counter, question, clean_question, plan,
                    tool_call, span_id, outcome, llm_calls >>

\* _execute_tool_call, lines 176-195: the except clause
ExecExcept ==
    /\ pc = "exec_except"
    /\ LET error_msg == ToolErrorText(exc)
           sent == IF HasTelemetry
                   THEN Append(trace, Ev("log_event", "tool_error", error_msg))
                   ELSE trace
       IN  IF Fails("log_event") \/ (span_id # "" /\ Fails("end_span"))
           THEN /\ exc' = TelemetryErrorMsg
                /\ trace' = IF Fails("log_event") THEN trace ELSE sent
                /\ pc' = "handler"
                /\ UNCHANGED << result, spans >>
           ELSE /\ result' = PyStr(error_msg)
                /\ spans' = end_span(spans, span_id)
                /\ trace' = IF span_id # ""
                            THEN Append(sent, Ev("end_span", tool_call.tool, error_msg))
                            ELSE sent
                /\ exc' = ""
                /\ pc' = "validate"
    /\ UNCHANGED << lib, threads, last, max_iterations, reg_result, registry_kind, tools, reg_ops, telemetry, tel_request_id,
                    span_seq, request_counter, question, clean_question, plan,
                    tool_call, span_id, outcome, llm_calls,
                    invocations >>

\* output validation that may also run in place of the reasoning call
Validate_early ==
    /\ pc \in {"validate", "call_llm"}
    /\ trace' = Append(trace, Ev("validate_output", "", ""))
    /\ outcome' = [kind |-> "returned", text |-> validate_output(result)]
    /\ pc' = "done"
    /\ UNCHANGED << lib, threads, last, max_iterations, reg_result, registry_kind, tools, reg_ops,
                    telemetry, tel_request_id, spans, span_seq, request_counter, question,
                    clean_question, plan, tool_call, span_id, result, exc, llm_calls,
                    invocations >>

\* an agent loop: after a tool ran, plan again while iterations are left
Validate_replan ==
    /\ pc = "validate"
    /\ IF invocations # <<>> /\ Len(llm_calls) < max_iterations
       THEN /\ pc' = "call_llm"
            /\ UNCHANGED << trace, outcome >>
       ELSE /\ trace' = Append(trace, Ev("validate_output", "", ""))
            /\ outcome' = [kind |-> "returned", text |-> validate_output(result)]
            /\ pc' = "done"
    /\ UNCHANGED << lib, threads, last, max_iterations, reg_result, registry_kind, tools, reg_ops,
                    telemetry, tel_request_id, spans, span_seq, request_counter, question,
                    clean_question, plan, tool_call, span_id, result, exc, llm_calls,
                    invocations >>

\* answer, lines 70-77: format the result and return it
Validate ==
    /\ pc = "validate"
    /\ trace' = Append(trace, Ev("validate_output", "", ""))
    /\ outcome' = [kind |-> "returned", text |-> validate_output(result)]
    /\ pc' = "done"
    /\ UNCHANGED << lib, threads, last, max_iterations, reg_result, registry_kind, tools, reg_ops, telemetry, tel_request_id,
                    spans, span_seq, request_counter, question, clean_question,
                    plan, tool_call, span_id, result, exc, llm_calls,
                    invocations >>

\* answer, lines 79-92: the except clause; an exception raised inside it
\* leaves answer
Handler ==
    /\ pc = "handler"
    /\ IF Fails("log_event")
       THEN /\ outcome' = [kind |-> "raised", text |-> TelemetryErrorMsg]
            /\ trace' = trace
       ELSE /\ outcome' = HandlerOutcome(exc)
            /\ trace' = IF HasTelemetry
                        THEN Append(trace, Ev("log_event", "error", exc))
                        ELSE trace
    /\ pc' = "done"
    /\ UNCHANGED << lib, threads, last, max_iterations, reg_result, registry_kind, tools, reg_ops, telemetry, tel_request_id,
                    spans, span_seq, request_counter, question, clean_question,
                    plan, tool_call, span_id, result, exc, llm_calls,
                    invocations >>

Next ==
    \/ \E tool \in Tools : Register(tool)
    \/ \E name \in ToolNames : Unregister(name)
    \/ \E q \in Questions : AnswerStart(q)
    \/ Sanitize
    \/ CallLLM
    \/ ProcessPlan
    \/ ExecStart
    \/ ExecTry
    \/ ExecExcept
    \/ Validate
    \/ Handler

Spec == Init /\ [][Next]_vars

(* --------------------------- repeated calls --------------------------- *)
(* A session of answer calls on a registry filled at startup and left alone, *)
(* in which each call is remembered for the next one to be compared with.    *)

\* the registries at the end of startup
RepeatRegistries ==
    { <<>>,
      << [name |-> "calc", impl |-> "calc_a"] >>,
      << [name |-> "kb", impl |-> "kb_a"], [name |-> "calc", impl |-> "calc_a"] >> }

RepeatInit ==
    /\ \E given \in OrchestratorArgs :
          /\ registry_kind = given.registry
          /\ telemetry = given.telemetry
          /\ max_iterations = given.max_iterations
    /\ last = KeptNoLast
    /\ threads = <<>>
    /\ tools \in RepeatRegistries
    /\ reg_ops = Len(tools)
    /\ tel_request_id = ""
    /\ spans = {}
    /\ span_seq = 0
    /\ request_counter = 0
    /\ pc = "idle"
    /\ question = ""
    /\ clean_question = ""
    /\ plan = PyNone
    /\ tool_call = NoToolCall
    /\ span_id = ""
    /\ result = PyNone
    /\ exc = ""
    /\ outcome = NoOutcome
    /\ trace = <<>>
    /\ llm_calls = <<>>
    /\ invocations = <<>>
    /\ reg_result = PyNone
    /\ lib = NoLibCall

RepeatNext ==
    \/ \E q \in Questions : AnswerStart(q)
    \/ Sanitize
    \/ CallLLM
    \/ ProcessPlan
    \/ ExecStart
    \/ ExecTry
    \/ ExecExcept
    \/ Validate
    \/ Handler

RepeatSpec == RepeatInit /\ [][RepeatNext]_vars

(* ------------------------------ threads ------------------------------- *)
(* Threads of one process share the core ToolRegistry, the AgentLogger and  *)
(* the EnhancedTelemetry port of one Orchestrator. Each thread makes one     *)
(* call, register, unregister or answer, and the calls interleave between    *)
(* the reads and writes of the shared objects. Of an answer call only the    *)
(* steps on shared objects are kept; its plan names the tool job.name.       *)

ThreadIds == 1..NumThreads

Job(kind, name, impl) == [kind |-> kind, name |-> name, impl |-> impl]

\* what a thread may be asked to do
Jobs ==
    { Job("register", "calc", "calc_a"),
      Job("register", "calc", "calc_b"),
      Job("unregister", "calc", ""),
      Job("answer", "calc", "") }

\* a thread about to make its call
Thread(job) ==
    [job |-> job,
     pc |-> CASE job.kind = "register" -> "reg_check"
              [] job.kind = "unregister" -> "unreg_check"
              [] OTHER -> "id_load",
     st |-> "running",   \* running, returned or raised
     seen |-> 0,         \* get_request_id: the counter as read
     id |-> "",          \* answer: request_id
     tags |-> <<>>,      \* the request_id written into each event it logged
     hit |-> FALSE,      \* what has_tool gave
     impl |-> "",        \* the tool it invoked
     ret |-> ""]         \* the text it returned, the message it raised

\* what no thread step changes
thread_fixed ==
    << registry_kind, reg_ops, telemetry, spans, span_seq, pc, question,
       clean_question, plan, tool_call, span_id, result, exc, outcome, trace,
       llm_calls, invocations, reg_result, max_iterations, last, lib >>

ThreadInit ==
    /\ threads \in [ThreadIds -> {Thread(job) : job \in Jobs}]
    /\ tools \in {<<>>, << [name |-> "calc", impl |-> "calc_a"] >>}
    /\ registry_kind = "core"
    /\ telemetry = [kind |-> "spans", fail |-> {}]
    /\ max_iterations = DefaultMaxIterations
    /\ last = NoLast
    /\ reg_ops = Len(tools)
    /\ tel_request_id = ""
    /\ spans = {}
    /\ span_seq = 0
    /\ request_counter = 0
    /\ pc = "idle"
    /\ question = ""
    /\ clean_question = ""
    /\ plan = PyNone
    /\ tool_call = NoToolCall
    /\ span_id = ""
    /\ result = PyNone
    /\ exc = ""
    /\ outcome = NoOutcome
    /\ trace = <<>>
    /\ llm_calls = <<>>
    /\ invocations = <<>>
    /\ reg_result = PyNone
    /\ lib = NoLibCall

\* thread t is at step and goes on as next
Step(t, step, next) ==
    /\ threads[t].pc = step
    /\ threads' = [threads EXCEPT ![t] = next]

\* self._tools[tool_name] = tool
store_tool(ts, tool) ==
    IF has_tool(ts, tool.name)
    THEN [i \in 1..Len(ts) |-> IF ts[i].name = tool.name THEN tool ELSE ts[i]]
    ELSE Append(ts, tool)

\* register, line 48: "if tool_name in self._tools: return"
RegCheck(t) ==
    /\ Step(t, "reg_check",
            IF has_tool(tools, threads[t].job.name)
            THEN [threads[t] EXCEPT !.pc = "end", !.st = "returned"]
            ELSE [threads[t] EXCEPT !.pc = "reg_store"])
    /\ UNCHANGED << tools, request_counter, tel_request_id >>
    /\ UNCHANGED thread_fixed

\* register, line 52: "self._tools[tool_name] = tool"
RegStore(t) ==
    /\ Step(t, "reg_store", [threads[t] EXCEPT !.pc = "end", !.st = "returned"])
    /\ tools' = store_tool(tools, [name |-> threads[t].job.name,
                                   impl |-> threads[t].job.impl])
    /\ UNCHANGED << request_counter, tel_request_id >>
    /\ UNCHANGED thread_fixed

\* unregister, line 63: "if name in self._tools", else "return False"
UnregCheck(t) ==
    /\ Step(t, "unreg_check",
            IF has_tool(tools, threads[t].job.name)
            THEN [threads[t] EXCEPT !.pc = "unreg_del"]
            ELSE [threads[t] EXCEPT !.pc = "end", !.st = "returned", !.ret = "False"])
    /\ UNCHANGED << tools, request_counter, tel_request_id >>
    /\ UNCHANGED thread_fixed

\* unregister, line 64: "del self._tools[name]", a KeyError when the name
\* has gone
UnregDel(t) ==
    /\ Step(t, "unreg_del",
            IF has_tool(tools, threads[t].job.name)
            THEN [threads[t] EXCEPT !.pc = "end", !.st = "returned", !.ret = "True"]
            ELSE [threads[t] EXCEPT !.pc = "end", !.st = "raised",
                                    !.ret = "KeyError: " \o threads[t].job.name])
    /\ tools' = unregister(tools, threads[t].job.name)
    /\ UNCHANGED << request_counter, tel_request_id >>
    /\ UNCHANGED thread_fixed

\* get_request_id, line 77: the read of "self.request_counter += 1"
IdLoad(t) ==
    /\ Step(t, "id_load", [threads[t] EXCEPT !.pc = "id_store", !.seen = request_counter])
    /\ UNCHANGED << tools, request_counter, tel_request_id >>
    /\ UNCHANGED thread_fixed

\* get_request_id, line 77: the write of "self.request_counter += 1"
IdStore(t) ==
    /\ Step(t, "id_store", [threads[t] EXCEPT !.pc = "id_format"])
    /\ request_counter' = threads[t].seen + 1
    /\ UNCHANGED << tools, tel_request_id >>
    /\ UNCHANGED thread_fixed

\* get_request_id, line 78: the id made of the counter as it is now
IdFormat(t) ==
    /\ Step(t, "id_format",
            [threads[t] EXCEPT !.pc = "set_request_id", !.id = RequestId(request_counter)])
    /\ UNCHANGED << tools, request_counter, tel_request_id >>
    /\ UNCHANGED thread_fixed

\* answer, line 34: self.telemetry.set_request_id(request_id)
SetRequestId(t) ==
    /\ Step(t, "set_request_id", [threads[t] EXCEPT !.pc = "log_question"])
    /\ tel_request_id' = threads[t].id
    /\ UNCHANGED << tools, request_counter >>
    /\ UNCHANGED thread_fixed

\* answer, line 43: log_event("question_received"), which writes
\* self.request_id of the port into the event
LogQuestion(t) ==
    /\ Step(t, "log_question",
            [threads[t] EXCEPT !.pc = "has_tool", !.tags = Append(@, tel_request_id)])
    /\ UNCHANGED << tools, request_counter, tel_request_id >>
    /\ UNCHANGED thread_fixed

\* _execute_tool_call, lines 134-146: has_tool, and the not-found result
HasTool(t) ==
    /\ Step(t, "has_tool",
            IF has_tool(tools, threads[t].job.name)
            THEN [threads[t] EXCEPT !.pc = "get_tool", !.hit = TRUE]
            ELSE [threads[t] EXCEPT !.pc = "end", !.st = "returned",
                                    !.ret = NotFoundMsg(threads[t].job.name, tools)])
    /\ UNCHANGED << tools, request_counter, tel_request_id >>
    /\ UNCHANGED thread_fixed

\* _execute_tool_call, line 149: get_tool, whose ValueError for a name that
\* has gone ends in the except clause, lines 176-195
GetTool(t) ==
    /\ Step(t, "get_tool",
            IF has_tool(tools, threads[t].job.name)
            THEN [threads[t] EXCEPT !.pc = "execute",
                                    !.impl = get_tool(tools, threads[t].job.name).impl]
            ELSE [threads[t] EXCEPT
                    !.pc = "end", !.st = "returned",
                    !.tags = Append(@, tel_request_id),
                    !.ret = ToolErrorText(get_tool_error(tools, threads[t].job.name))])
    /\ UNCHANGED << tools, request_counter, tel_request_id >>
    /\ UNCHANGED thread_fixed

\* _execute_tool_call, line 156: tool.execute
Execute(t) ==
    /\ Step(t, "execute", [threads[t] EXCEPT !.pc = "log_executed", !.ret = "4"])
    /\ UNCHANGED << tools, request_counter, tel_request_id >>
    /\ UNCHANGED thread_fixed

\* _execute_tool_call, line 165: log_event("tool_executed")
LogExecuted(t) ==
    /\ Step(t, "log_executed",
            [threads[t] EXCEPT !.pc = "end", !.st = "returned",
                               !.tags = Append(@, tel_request_id)])
    /\ UNCHANGED << tools, request_counter, tel_request_id >>
    /\ UNCHANGED thread_fixed

ThreadNext ==
    \E t \in ThreadIds :
        \/ RegCheck(t)
        \/ RegStore(t)
        \/ UnregCheck(t)
        \/ UnregDel(t)
        \/ IdLoad(t)
        \/ IdStore(t)
        \/ IdFormat(t)
        \/ SetRequestId(t)
        \/ LogQuestion(t)
        \/ HasTool(t)
        \/ GetTool(t)
        \/ Execute(t)
        \/ LogExecuted(t)

ThreadSpec == ThreadInit /\ [][ThreadNext]_vars

(* --------------------------- library calls ---------------------------- *)
(* The functions of guardrails and of the retry policy called on their own, *)
(* outside an answer call: lib holds the call, its argument and what it     *)
(* gave back.                                                               *)

\* the state of the Orchestrator and its registry, which a library call
\* leaves alone
orch_vars ==
    << registry_kind, tools, reg_ops, telemetry, tel_request_id, spans, span_seq,
       request_counter, pc, question, clean_question, plan, tool_call, span_id,
       result, exc, outcome, trace, llm_calls, invocations, reg_result,
       max_iterations, last, threads >>

RECURSIVE Repeat(_, _)
\* text * count
Repeat(text, count) ==
    IF count = 0 THEN ""
    ELSE LET Twice(half) == half \o half \o (IF count % 2 = 1 THEN text ELSE "")
         IN  Twice(Repeat(text, count \div 2))

\* the texts handed to sanitize_input: a body between leading and trailing
\* whitespace, the bodies around the length limit
SanitizeInputs ==
    { lead \o body \o trail :
        lead  \in {"", " ", "\t \n"},
        body  \in {"", "What is 2+2?", "What is   2 + 2?",
                   Repeat("x", SanitizeLimit - 1),
                   Repeat("x", SanitizeLimit),
                   Repeat("x", SanitizeLimit + 1),
                   Repeat("x", SanitizeLimit - 1) \o " \t y"},
        trail \in {"", "  ", "\n"} }

\* a call that was made and has not returned yet
Call(fn, arg) ==
    [fn |-> fn, arg |-> arg, st |-> "called", ret |-> PyNone, calls |-> 0,
     slept |-> <<>>, tried |-> <<>>]

\* sanitize_input(lib.arg), lib.arg a str
SanitizeInputCall ==
    /\ lib.fn = "sanitize_input"
    /\ lib.st = "called"
    /\ lib' = [lib EXCEPT !.st = "returned", !.ret = PyStr(sanitize_input(lib.arg.s))]
    /\ UNCHANGED orch_vars

\* the values handed to validate_output
OutputValues ==
    { PyNone, PyStr(""), PyStr("hello world"), PyStr(" 42 "), PyStr("null"),
      PyInt(0), PyInt(42), PyInt(-7), PyBool(TRUE), PyBool(FALSE),
      PyDict(<<>>), PyList(<<>>),
      PyDict(<< Item("key", PyStr("value")), Item("number", PyInt(42)) >>),
      PyList(<< Item("", PyInt(1)), Item("", PyNone), Item("", PyBool(TRUE)) >>),
      PyDict(<< Item("a", PyList(<< Item("", PyStr("x\"y")) >>)),
                Item("b", PyDict(<< Item("c", PyInt(-1)) >>)) >>),
      PyObj("<object object>"),
      PyDict(<< Item("k", PyObj("<object object>")) >>),
      PyList(<< Item("", PyStr("it's")), Item("", PyObj("<object object>")) >>) }

\* validate_output(lib.arg)
ValidateOutputCall ==
    /\ lib.fn = "validate_output"
    /\ lib.st = "called"
    /\ lib' = [lib EXCEPT !.st = "returned", !.ret = PyStr(validate_output(lib.arg))]
    /\ UNCHANGED orch_vars

\* the texts handed to repair_json: valid JSON, texts one repair mends,
\* texts no single repair mends, and text that is no JSON at all
RepairTexts ==
    { "",
      "{\"tool\":\"calc\"}",
      "{\"tool\":\"calc\",\"args\":{\"expr\":\"1+1\"}",
      "{\"a\":\"b",
      "\"abc",
      "[1,2",
      "{\"tool\":\"calc\",\"args\":{\"expr\":\"1+1\",},}",
      "[1,2,]",
      "{\"a\":[1,],}",
      "this is not json at all",
      "  [1,2 ",
      " {\"a\":1 ",
      " 7 ",
      "{\"a\":[1,2}",
      "[{\"a\":1,}",
      "{\"a\":[1 , ]}" }

\* repair_json(lib.arg), one parse at a time: lines 31-38 the text as it
\* is, then lines 53-58 one turn of the loop for each repair, lib.tried the
\* texts handed to json.loads so far
RepairJsonAttempt ==
    /\ lib.fn = "repair_json"
    /\ lib.st = "called"
    /\ LET text == lib.arg.s
           Parsed(candidate, r) ==
               IF r.ok
               THEN [lib EXCEPT !.calls = @ + 1, !.tried = Append(@, candidate),
                                !.st = "returned", !.ret = r.v]
               ELSE IF lib.calls = Len(Repairs(text))
               THEN [lib EXCEPT !.calls = @ + 1, !.tried = Append(@, candidate),
                                !.st = "returned", !.ret = PyNone]
               ELSE [lib EXCEPT !.calls = @ + 1, !.tried = Append(@, candidate)]
           Try(candidate) == Parsed(candidate, json_loads(candidate))
       IN  lib' = IF text = "" THEN [lib EXCEPT !.st = "returned", !.ret = PyNone]
                  ELSE IF lib.calls = 0 THEN Try(text)
                  ELSE Try(Repairs(Strip(text))[lib.calls])
    /\ UNCHANGED orch_vars

\* the texts handed to extract_tool_call_from_text: JSON tool calls, whole or
\* in need of a repair, the TOOL pattern alone, after other text, twice and
\* inside JSON, near misses of the pattern, and text with neither
ExtractTexts ==
    { "TOOL:calc EXPR=\"2+2\"",
      "{\"tool\":\"calc\"} TOOL:kb Q=\"x\"",
      "{\"x\":1} TOOL:kb Q=\"x\"",
      "tool:calc EXPR=\"1\"",
      "say TOOL:calc  Expr_1=\"a b\" and TOOL:kb Q=\"z\"",
      "TOOL:calc EXPR=2",
      "TOOL: calc EXPR=\"2\"",
      "TOOL:calc\tEXPR=\"\"",
      "{\"tool\":\"\"}",
      "{\"tool\":\"calc\",\"args\":{\"expr\":\"1+1\"}}",
      "{\"tool\":\"calc\"",
      "{\"tool\":\"calc\",\"TOOL:kb Q=\":\"x\"}",
      "{\"tool\":\"calc\",\"TOOL:kb Q=\":\"x\"",
      "{\"x\":1,\"TOOL:kb Q=\":\"x\"}",
      "[]",
      "\"abc",
      "just some random text",
      "" }

\* extract_tool_call_from_text(lib.arg), lib.arg a str
ExtractToolCallCall ==
    /\ lib.fn = "extract_tool_call_from_text"
    /\ lib.st = "called"
    /\ lib' = [lib EXCEPT !.st = "returned",
                          !.ret = extract_tool_call_from_text(lib.arg.s)]
    /\ UNCHANGED orch_vars

(* The retry policy of the execution policy; delays are whole time units. *)

\* RetryPolicy(max_attempts, base_delay, exponential_base, max_delay)
RetryPolicy(attempts, base, factor, cap) ==
    [max_attempts |-> attempts, base_delay |-> base, exponential_base |-> factor,
     max_delay |-> cap]

\* backoff policies: the delay grows by factor, or stays (factor 1)
RetryPolicies ==
    { RetryPolicy(attempts, base, factor, cap) :
        attempts \in 1..MaxAttempts, base \in {0, 1, 3}, factor \in {1, 2, 3},
        cap \in {2, 10} }

RECURSIVE Pow(_, _)
Pow(base, exponent) == IF exponent = 0 THEN 1 ELSE base * Pow(base, exponent - 1)

\* get_delay without the cap
get_delay_nocap(policy, attempt) ==
    policy.base_delay * Pow(policy.exponential_base, attempt - 1)

\* RetryPolicy.get_delay(attempt):
\* min(base_delay * exponential_base ** (attempt - 1), max_delay)
get_delay(policy, attempt) ==
    LET Capped(raw) == IF raw < policy.max_delay THEN raw ELSE policy.max_delay
    IN  Capped(policy.base_delay * Pow(policy.exponential_base, attempt - 1))

\* the next delay of the schedule of policy lib.arg: get_delay(1),
\* get_delay(2), ...
GetDelayCall ==
    /\ lib.fn = "get_delay"
    /\ lib.st = "called"
    /\ lib.calls < MaxAttemptNumber
    /\ lib' = [lib EXCEPT !.calls = @ + 1,
                          !.slept = Append(@, get_delay(lib.arg, lib.calls + 1))]
    /\ UNCHANGED orch_vars

\* with_retry giving up one attempt early
attempts_left_short(policy, attempt) == attempt < policy.max_attempts - 1

\* with_retry: another attempt follows the failed one
attempts_left(policy, attempt) == attempt < policy.max_attempts

\* "Operation failed after N attempts (context: <label>)"
ExhaustedMsg(attempts, label) ==
    "Operation failed after " \o IntToStr(attempts) \o " attempts (context: "
    \o label \o ")"

\* PolicyManager.with_retry(operation, context), one attempt: lib.arg holds
\* the policy, how many times the operation fails before it succeeds, and
\* the context label; a failed attempt is followed by a sleep of
\* get_delay(attempt) or, after the last one, by the exhaustion error
WithRetryAttempt ==
    /\ lib.fn = "with_retry"
    /\ lib.st = "called"
    /\ LET Attempt(number, policy) ==
               IF number > lib.arg.fails
               THEN [lib EXCEPT !.calls = number, !.st = "returned",
                                !.ret = PyStr("success")]
               ELSE IF attempts_left(policy, number)
               THEN [lib EXCEPT !.calls = number,
                                !.slept = Append(@, get_delay(policy, number))]
               ELSE [lib EXCEPT !.calls = number, !.st = "raised",
                                !.ret = PyStr(ExhaustedMsg(policy.max_attempts,
                                                           lib.arg.context))]
       IN  lib' = Attempt(lib.calls + 1, lib.arg.policy)
    /\ UNCHANGED orch_vars

(* The calculator tool, CalculatorTool.execute called with a str. *)

\* the first position at or after i where sub starts in text, 0 for none
FindFrom(text, sub, i) ==
    LET hits == {j \in i..(Len(text) - Len(sub) + 1) : StartsWithAt(text, j, sub)}
    IN  IF hits = {} THEN 0 ELSE CHOOSE j \in hits : \A k \in hits : j <= k

\* sub in text
Contains(text, sub) == FindFrom(text, sub, 1) # 0

RECURSIVE Replace(_, _, _)
\* text.replace(old, new), old not empty
Replace(text, old, new) ==
    LET At(j) ==
            IF j = 0 THEN text
            ELSE SubSeq(text, 1, j - 1) \o new
                 \o Replace(SubSeq(text, j + Len(old), Len(text)), old, new)
    IN  At(FindFrom(text, old, 1))

RECURSIVE Split(_, _)
\* text.split(sep), sep not empty
Split(text, sep) ==
    LET At(j) ==
            IF j = 0 THEN <<text>>
            ELSE <<SubSeq(text, 1, j - 1)>>
                 \o Split(SubSeq(text, j + Len(sep), Len(text)), sep)
    IN  At(FindFrom(text, sep, 1))

\* what the class [\d\s+\-*/().%] admits
CalcChars == DigitChars \cup SpaceChars \cup {"+", "-", "*", "/", "(", ")", ".", "%"}

\* re.match(r'^[\d\s+\-*/().%]+$', text), text stripped
MatchesCalcChars(text) ==
    /\ Len(text) > 0
    /\ \A i \in 1..Len(text) : CharAt(text, i) \in CalcChars

\* re.search(r'(\d+(?:\.\d+)?)', text) finds a number
HasNumber(text) == \E i \in 1..Len(text) : CharAt(text, i) \in DigitChars

\* group(1) of that search: the first run of digits, with a fraction if a
\* dot and a digit follow it
FirstNumber(text) ==
    LET Upto(i, j) ==
            IF j + 1 <= Len(text) /\ CharAt(text, j) = "."
               /\ CharAt(text, j + 1) \in DigitChars
            THEN SubSeq(text, i, RunEnd(text, j + 1, DigitChars) - 1)
            ELSE SubSeq(text, i, j - 1)
        From(i) == Upto(i, RunEnd(text, i, DigitChars))
    IN  From(CHOOSE i \in 1..Len(text) :
                 /\ CharAt(text, i) \in DigitChars
                 /\ \A k \in 1..(i - 1) : CharAt(text, k) \notin DigitChars)

\* float(text) accepts text (already stripped, lower case): a sign, then
\* digits with an optional dot and fraction, or a dot and digits, or one of
\* inf, infinity, nan; exponents and underscores are not among the inputs
IsFloat(text) ==
    LET Unsigned(body) ==
            LET Frac(d) ==
                    \/ d = Len(body) + 1 /\ d > 1
                    \/ /\ d <= Len(body) /\ CharAt(body, d) = "."
                       /\ RunEnd(body, d + 1, DigitChars) = Len(body) + 1
                       /\ Len(body) > 1
            IN  \/ body \in {"inf", "infinity", "nan"}
                \/ Frac(RunEnd(body, 1, DigitChars))
    IN  IF Len(text) > 0 /\ CharAt(text, 1) \in {"+", "-"}
        THEN Unsigned(SubSeq(text, 2, Len(text)))
        ELSE Unsigned(text)

\* str(UnboundLocalError) for the name re, which line 33 makes a local of
\* execute and only the add branch binds
UnboundLocalMsg ==
    "cannot access local variable 're' where it is not associated with a value"

\* the outcome of a call: how it ended, what it returned or raised, and the
\* strings it handed to eval
CalcOutcome(how, val, evaled) == [st |-> how, ret |-> val, tried |-> evaled]

\* CalculatorTool._percent_of(expr): the percentage of two float texts; any
\* failure (more or fewer than two parts, a part float() refuses) ends in
\* eval(expr), whose value or exception is the caller's
percent_of(expr) ==
    LET Of(parts) ==
            IF Len(parts) = 2 /\ IsFloat(Strip(parts[1])) /\ IsFloat(Strip(parts[2]))
            THEN CalcOutcome("returned",
                             PyObj("(" \o Strip(parts[1]) \o "/100.0)*"
                                   \o Strip(parts[2])), <<>>)
            ELSE CalcOutcome("evaluated", PyNone, <<expr>>)
    IN  Of(Split(expr, "% of"))

\* CalculatorTool.execute(expr); a float is kept as the arithmetic on its
\* operand texts
calc_execute(expr) ==
    LET Invalid(msg) ==
            CalcOutcome("raised",
                        PyStr("Invalid mathematical expression: " \o expr
                              \o ". Error: " \o msg), <<>>)
        \* lines 42-45, re_bound: line 33 was executed
        Check(e, re_bound) ==
            IF ~re_bound THEN Invalid(UnboundLocalMsg)
            ELSE IF MatchesCalcChars(e) THEN CalcOutcome("evaluated", PyNone, <<e>>)
            ELSE Invalid("Cannot evaluate complex expression: " \o expr)
        \* line 40
        Words(e) ==
            Replace(Replace(Replace(Replace(e, "plus ", "+"), "minus ", "-"),
                            "times ", "*"), "divided by", "/")
        \* lines 30-38
        AddTo(e, num_to_add, target) ==
            IF HasNumber(num_to_add) /\ HasNumber(target)
            THEN CalcOutcome("returned",
                             PyObj(FirstNumber(target) \o "+" \o FirstNumber(num_to_add)),
                             <<>>)
            ELSE Check(Words(e), TRUE)
        \* lines 28-29
        AfterAdd(e, add_parts) ==
            IF Len(add_parts) = 2
            THEN AddTo(e, Strip(add_parts[1]), Strip(add_parts[2]))
            ELSE Check(Words(e), FALSE)
        \* lines 24-27
        Parts(e, parts) ==
            IF Len(parts) = 2 /\ Contains(Strip(parts[2]), "to")
            THEN AfterAdd(e, Split(Strip(parts[2]), "to"))
            ELSE Check(Words(e), FALSE)
        \* lines 21-23
        Main(e) ==
            IF Contains(e, "add") /\ Contains(e, "to")
            THEN Parts(e, Split(e, "add"))
            ELSE Check(Words(e), FALSE)
        \* lines 17-18
        First(e) ==
            IF Contains(e, "% of") THEN percent_of(e)
            ELSE Main(Strip(Replace(Replace(e, "what is", ""), "calculate", "")))
    IN  First(Strip(Replace(Lower(expr), "what is", "")))

\* the expressions handed to the calculator: arithmetic in symbols and in
\* words, percentages of numbers and of other text, additions in words,
\* and text that is no arithmetic
CalcExprs ==
    { "2+2",
      "What is 2 + 2",
      "calculate 7 times 6",
      "5 plus 3",
      "10 divided by 2",
      "(1+2)*3 ",
      "1/0",
      "",
      "import os",
      "10% of 50",
      " 5 % OF 20 ",
      "What is 12.5% of 80",
      "-3% of .5",
      "abc% of def",
      "1% of 2% of 3",
      "What is 7 % of 3 ?",
      "__import__('os').getcwd() # % of",
      "add 5 to 10",
      "Add 2.5 to 7 please",
      "add 2 to",
      "add to",
      "add 1 to 2 to 3" }

\* CalculatorTool.execute(lib.arg), lib.arg a str; lib.tried the strings
\* handed to eval
CalcExecuteCall ==
    /\ lib.fn = "calc.execute"
    /\ lib.st = "called"
    /\ LET Ended(r) == [lib EXCEPT !.st = r.st, !.ret = r.ret, !.tried = r.tried]
       IN  lib' = Ended(calc_execute(lib.arg.s))
    /\ UNCHANGED orch_vars

LibCalls ==
    {Call("sanitize_input", PyStr(text)) : text \in SanitizeInputs}
    \cup {Call("validate_output", val) : val \in OutputValues}
    \cup {Call("repair_json", PyStr(text)) : text \in RepairTexts}
    \cup {Call("extract_tool_call_from_text", PyStr(text)) : text \in ExtractTexts}
    \cup {Call("calc.execute", PyStr(text)) : text \in CalcExprs}
    \cup {Call("get_delay", policy) : policy \in RetryPolicies}
    \cup {Call("with_retry", [policy |-> policy, fails |-> fails,
                              context |-> "test operation"]) :
             policy \in RetryPolicies, fails \in 0..MaxAttempts}

LibInit ==
    /\ lib \in LibCalls
    /\ registry_kind = "core"
    /\ max_iterations = DefaultMaxIterations
    /\ last = NoLast
    /\ threads = <<>>
    /\ tools = <<>>
    /\ reg_ops = 0
    /\ telemetry = [kind |-> "none", fail |-> {}]
    /\ tel_request_id = ""
    /\ spans = {}
    /\ span_seq = 0
    /\ request_counter = 0
    /\ pc = "idle"
    /\ question = ""
    /\ clean_question = ""
    /\ plan = PyNone
    /\ tool_call = NoToolCall
    /\ span_id = ""
    /\ result = PyNone
    /\ exc = ""
    /\ outcome = NoOutcome
    /\ trace = <<>>
    /\ llm_calls = <<>>
    /\ invocations = <<>>
    /\ reg_result = PyNone

LibNext ==
    \/ SanitizeInputCall
    \/ ValidateOutputCall
    \/ RepairJsonAttempt
    \/ ExtractToolCallCall
    \/ CalcExecuteCall
    \/ GetDelayCall
    \/ WithRetryAttempt

LibSpec == LibInit /\ [][LibNext]_vars

(* ------------------------------- claims ------------------------------- *)

\* no method of the telemetry port raises (or there is no port)
TelemetryWorks == telemetry.fail = {}

LLMRaised == llm_calls # <<>> /\ llm_calls[Len(llm_calls)].out.raised

ToolRaised == invocations # <<>> /\ invocations[Len(invocations)].out.raised

ToolReturned == invocations # <<>> /\ ~invocations[Len(invocations)].out.raised

\* C1: answer never raises: whatever the question, and whether the
\* reasoning component and the invoked tool return or raise, a finished
\* answer call has returned a string to its caller.
C1_AnswerNeverRaises ==
    (pc = "done" /\ TelemetryWorks) =>
        /\ outcome.kind = "returned"
        /\ outcome.text \in STRING

\* an answer call that returned although the tool it invoked raised
C1_Witness ==
    /\ pc = "done" /\ TelemetryWorks
    /\ ToolRaised
    /\ outcome.kind = "returned"

\* C2: when the reasoning component raises with message m, answer returns
\* exactly "Error: " followed by m, the last thing reported to the telemetry
\* port is an "error" event carrying m, no tool was invoked and
\* validate_output was not applied.
C2_LLMFailureIsErrorText ==
    (pc = "done" /\ TelemetryWorks /\ LLMRaised) =>
        LET m == llm_calls[Len(llm_calls)].out.msg
        IN  /\ outcome = [kind |-> "returned", text |-> "Error: " \o m]
            /\ HasTelemetry => trace[Len(trace)] = Ev("log_event", "error", m)
            /\ invocations = <<>>
            /\ \A i \in 1..Len(trace) :
                  trace[i].op \notin {"validate_output", "tool.execute"}

\* the reasoning component raised under a telemetry port and answer returned
C2_Witness ==
    /\ pc = "done" /\ LLMRaised
    /\ HasTelemetry /\ TelemetryWorks
    /\ outcome.text = "Error: LLM Error"

\* C3: a failure inside the telemetry port is swallowed: a finished answer
\* call has returned, and its text is the text a working port gives for the
\* same question, plan and tool behaviour.
C3_TelemetryFailureSwallowed ==
    pc = "done" =>
        /\ outcome.kind = "returned"
        /\ \E r \in LLMResponses, out \in ToolOutcomes :
              LET pp == process_plan(r.v)
                  working ==
                      IF r.raised THEN "Error: " \o r.msg
                      ELSE CASE pp.kind = "raise" -> "Error: " \o pp.msg
                             [] pp.kind = "final" -> validate_output(r.v)
                             [] OTHER ->
                                  IF registry_kind = "legacy"
                                  THEN "Tool execution error: " \o HasToolAttributeError
                                  ELSE IF ~has_tool(tools, pp.tool)
                                  THEN NotFoundMsg(pp.tool, tools)
                                  ELSE IF out.raised
                                  THEN "Tool execution error: " \o out.msg
                                  ELSE validate_output(out.v)
              IN  /\ llm_calls # <<>> => r = llm_calls[1].out
                  /\ invocations # <<>> => out = invocations[1].out
                  /\ outcome.text = working

\* the plan of this call is a map with a tool name and, if it has args, an
\* argument map
StructuredPlan ==
    /\ plan.t = "dict" /\ DictHas(plan, "tool")
    /\ DictGet(plan, "tool").t = "str"
    /\ DictHas(plan, "args") => DictGet(plan, "args").t = "dict"

PlanTool == DictGet(plan, "tool").s

PlanArgs == IF DictHas(plan, "args") THEN DictGet(plan, "args") ELSE PyDict(<<>>)

\* the plan of this call has been interpreted
Interpreted == \E i \in 1..Len(trace) : trace[i].op = "process_plan"

C5_FreeTextReturnedUnchanged ==
    (pc = "done" /\ plan.t = "str"
        /\ ~validate_tool_call(repair_json(plan.s))
        /\ ~ToolPatternSearch(plan.s).found) =>
        /\ outcome = [kind |-> "returned", text |-> plan.s]
        /\ invocations = <<>>

\* the reasoning component answered in plain text and answer returned it
C5_Witness ==
    /\ pc = "done"
    /\ plan = PyStr("Paris is the capital of France.")
    /\ outcome = [kind |-> "returned", text |-> "Paris is the capital of France."]
    /\ invocations = <<>>

\* C6: interpreting a plan never fails: it yields an invocation or the
\* original candidate as the final answer, never an exception, so the
\* handler is never entered from plan interpretation.
C6_InterpretationNeverFails ==
    \A i \in 1..Len(trace) :
        trace[i].op = "process_plan" =>
            /\ trace[i].x \in {"invoke", "final"}
            /\ trace[i].x = "final" /\ i = Len(trace) => result = plan

\* C7: a structured plan with a tool field is interpreted as the invocation
\* of exactly that tool name with exactly the plan's argument map, the empty
\* map when the plan has no args, and these are the arguments every call of
\* the tool receives.
C7_StructuredPlanRoundTrip ==
    (StructuredPlan /\ Interpreted) =>
        /\ tool_call = [tool |-> PlanTool, args |-> PlanArgs]
        /\ \A i \in 1..Len(invocations) :
              /\ invocations[i].name = PlanTool
              /\ invocations[i].args = PlanArgs

\* a plan with args reached its tool with these args
C7_Witness ==
    /\ pc = "done"
    /\ StructuredPlan /\ DictHas(plan, "args") /\ PlanArgs = CalcArgs
    /\ Len(invocations) = 1
    /\ invocations[1].args = CalcArgs

C9_ToolFailureIsErrorText ==
    (pc = "done" /\ TelemetryWorks /\ ToolRaised) =>
        outcome = [kind |-> "returned",
                   text |-> "Error: " \o invocations[Len(invocations)].out.msg]

\* C10: registering a tool under a name that is already registered changes
\* nothing: the tool first registered stays and the list of names is the same.
C10_DuplicateRegisterIsNoOp ==
    [][\A tool \in Tools :
          (Register(tool) /\ has_tool(tools, tool.name)) =>
              /\ get_tool(tools', tool.name) = get_tool(tools, tool.name)
              /\ list_tools(tools') = list_tools(tools)]_vars

\* C11: unregister(name) returns true exactly when name was registered;
\* afterwards has_tool(name) is false and get_tool(name) raises the
\* not-found error, while every other registered tool and the order of the
\* other names in list_tools are unchanged; when name was absent it returns
\* false and changes nothing.
C11_UnregisterRemovesOnlyName ==
    [][\A name \in ToolNames :
          Unregister(name) =>
              /\ reg_result' = PyBool(has_tool(tools, name))
              /\ ~has_tool(tools', name)
              /\ StartsWithAt(get_tool_error(tools', name), 1,
                              "Tool '" \o name \o "' not found")
              /\ \A other \in ToolNames \ {name} :
                    has_tool(tools, other) =>
                        /\ has_tool(tools', other)
                        /\ get_tool(tools', other) = get_tool(tools, other)
              /\ list_tools(tools') = SelectSeq(list_tools(tools), LAMBDA n : n # name)
              /\ (~has_tool(tools, name) => tools' = tools)]_vars

\* unregister has just removed a registered tool and another one is left
C11_Witness ==
    /\ reg_result = PyBool(TRUE)
    /\ Len(tools) >= 1

\* C12: after any sequence of register and unregister calls, list_tools
\* holds each registered name exactly once, in registration order: a new
\* name goes to the end, a name already registered keeps its place, and
\* removing a name keeps the order of the others.
C12_ListInRegistrationOrder ==
    [][/\ \A tool \in Tools :
             Register(tool) =>
                 list_tools(tools') =
                     IF has_tool(tools, tool.name) THEN list_tools(tools)
                     ELSE Append(list_tools(tools), tool.name)
       /\ \A name \in ToolNames :
             Unregister(name) =>
                 list_tools(tools') = SelectSeq(list_tools(tools), LAMBDA n : n # name)
       /\ \A i, j \in 1..Len(tools') :
             list_tools(tools')[i] = list_tools(tools')[j] => i = j]_vars

\* "kb" was registered before "calc" and a third registry call left the order
C12_Witness ==
    /\ list_tools(tools) = << "kb", "calc" >>
    /\ reg_ops = 3

\* the length of text between its first and its last character that is not
\* whitespace, 0 where it has none
TrimmedLen(text) ==
    LET Solid(i) == CharAt(text, i) \notin SpaceChars
    IN  IF \A i \in 1..Len(text) : ~Solid(i) THEN 0
        ELSE (CHOOSE i \in 1..Len(text) :
                 Solid(i) /\ \A j \in (i + 1)..Len(text) : ~Solid(j))
             - (CHOOSE i \in 1..Len(text) :
                 Solid(i) /\ \A j \in 1..(i - 1) : ~Solid(j))
             + 1

SanitizeReturned == lib.fn = "sanitize_input" /\ lib.st = "returned"

\* C13 as stated: for every string input longer than the maximum of 10000
\* characters, the sanitized text has length exactly the maximum.
C13_LongInputCutToLimit ==
    (SanitizeReturned /\ Len(lib.arg.s) > SanitizeLimit) =>
        Len(lib.ret.s) = SanitizeLimit

\* C13 amended: for every string input whose text without its leading and
\* trailing whitespace is longer than the maximum, the sanitized text has
\* length exactly the maximum; no sanitized text is longer than the maximum.
C13_LongTrimmedInputCutToLimit ==
    SanitizeReturned =>
        /\ Len(lib.ret.s) <= SanitizeLimit
        /\ (TrimmedLen(lib.arg.s) > SanitizeLimit => Len(lib.ret.s) = SanitizeLimit)

\* an input that is too long even without the whitespace around it was cut
C13_Witness ==
    /\ SanitizeReturned
    /\ TrimmedLen(lib.arg.s) > SanitizeLimit
    /\ Len(lib.arg.s) > TrimmedLen(lib.arg.s)
    /\ Len(lib.ret.s) = SanitizeLimit

\* text neither begins nor ends with whitespace and has no two adjacent
\* whitespace characters
Collapsed(text) ==
    /\ text # "" => (CharAt(text, 1) \notin SpaceChars
                     /\ CharAt(text, Len(text)) \notin SpaceChars)
    /\ \A i \in 1..(Len(text) - 1) :
          ~(CharAt(text, i) \in SpaceChars /\ CharAt(text, i + 1) \in SpaceChars)

\* C14: sanitizing trims the input and collapses every internal run of
\* whitespace to one space, and the reasoning component receives that text:
\* its prompt neither begins nor ends with whitespace, has no two adjacent
\* whitespace characters, and "   What is   2 + 2?   " reaches it as
\* "What is 2 + 2?".
C14_PromptIsCollapsed ==
    \A i \in 1..Len(llm_calls) :
        /\ Collapsed(llm_calls[i].prompt)
        /\ (question = "   What is   2 + 2?   "
               => llm_calls[i].prompt = "What is 2 + 2?")

\* C15: when the input is empty or only whitespace, answer returns a text
\* that begins with "Error: " and the reasoning component is not called for
\* that request.
C15_EmptyInputIsError ==
    (pc = "done" /\ TelemetryWorks /\ TrimmedLen(question) = 0) =>
        /\ StartsWithAt(outcome.text, 1, "Error: ")
        /\ llm_calls = <<>>

\* name matches the identifier grammar: ASCII letters, digits and
\* underscore, not starting with a digit
ValidToolName(name) ==
    /\ name # ""
    /\ CharAt(name, 1) \notin DigitChars
    /\ \A i \in 1..Len(name) : CharAt(name, i) \in WordChars

\* C16: executing an invocation whose tool name does not match the
\* identifier grammar invokes no tool, even when a tool is registered under
\* that name.
C16_InvalidNameInvokesNothing ==
    (pc = "done" /\ TelemetryWorks /\ tool_call # NoToolCall
        /\ ~ValidToolName(tool_call.tool)) =>
        invocations = <<>>

\* the number of calls of op this answer call made
Count(op) == Cardinality({i \in 1..Len(trace) : trace[i].op = op})

\* the plan of this call was interpreted as a tool invocation
Executed ==
    \E i \in 1..Len(trace) : trace[i].op = "process_plan" /\ trace[i].x = "invoke"

\* C17: every tool execution, whether the tool returned, raised or was not
\* found, makes exactly one start_span and, after it, exactly one end_span
\* on the telemetry port, and no span is active when answer returns.
C17_OneSpanPairPerExecution ==
    (pc = "done" /\ TelemetryWorks /\ HasSpans /\ Executed) =>
        /\ Count("start_span") = 1
        /\ Count("end_span") = 1
        /\ \A i, j \in 1..Len(trace) :
              (trace[i].op = "start_span" /\ trace[j].op = "end_span") => i < j
        /\ spans = {}

\* an answer call whose tool raised has started and ended its span
C17_Witness ==
    /\ pc = "done" /\ TelemetryWorks /\ HasSpans
    /\ ToolRaised
    /\ Count("end_span") = 1
    /\ spans = {}

ValidateReturned == lib.fn = "validate_output" /\ lib.st = "returned"

\* C18 as stated: output validation returns a string: None gives
\* "No result", a string is returned unchanged, a number gives its decimal
\* text, any other value gives its indented serialized text, and a value
\* that cannot be serialized gives its plain string conversion.
C18_OutputByKind ==
    ValidateReturned =>
        /\ lib.ret.s \in STRING
        /\ lib.ret.s =
              CASE lib.arg.t = "none" -> "No result"
                [] lib.arg.t = "str"  -> lib.arg.s
                [] lib.arg.t = "int"  -> IntToStr(lib.arg.n)
                [] OTHER -> IF Serializable(lib.arg) THEN json_dumps(lib.arg, 2, 0)
                            ELSE py_str(lib.arg)

\* C18 amended: as stated, except that a boolean, which is neither given
\* as a decimal number nor serialized, gives "True" or "False".
C18_OutputByKindBool ==
    ValidateReturned =>
        /\ lib.ret.s \in STRING
        /\ lib.ret.s =
              CASE lib.arg.t = "none" -> "No result"
                [] lib.arg.t = "str"  -> lib.arg.s
                [] lib.arg.t = "int"  -> IntToStr(lib.arg.n)
                [] lib.arg.t = "bool" -> IF lib.arg.n = 1 THEN "True" ELSE "False"
                [] OTHER -> IF Serializable(lib.arg) THEN json_dumps(lib.arg, 2, 0)
                            ELSE py_str(lib.arg)
        /\ (lib.arg = PyInt(-7) => lib.ret.s = "-7")
        /\ (lib.arg = PyDict(<< Item("key", PyStr("value")), Item("number", PyInt(42)) >>)
               => lib.ret.s = "{\n  \"key\": \"value\",\n  \"number\": 42\n}")
        /\ (lib.arg = PyList(<< Item("", PyInt(1)), Item("", PyNone),
                                Item("", PyBool(TRUE)) >>)
               => lib.ret.s = "[\n  1,\n  null,\n  true\n]")

\* a dict that holds an object json cannot serialize came back as its str()
C18_Witness ==
    /\ ValidateReturned
    /\ lib.arg.t = "dict"
    /\ ~Serializable(lib.arg)
    /\ lib.ret.s = "{'k': <object object>}"

RetryEnded == lib.fn = "with_retry" /\ lib.st \in {"returned", "raised"}

\* C19: with_retry on an operation that fails exactly k < max_attempts times
\* and then succeeds returns the success value, and the operation was invoked
\* exactly k + 1 times; no call invokes it more than max_attempts times.
C19_RetryUntilSuccess ==
    /\ lib.fn = "with_retry" => lib.calls <= lib.arg.policy.max_attempts
    /\ (RetryEnded /\ lib.arg.fails < lib.arg.policy.max_attempts) =>
          /\ lib.st = "returned"
          /\ lib.ret = PyStr("success")
          /\ lib.calls = lib.arg.fails + 1

\* the operation failed twice and succeeded on the third and last attempt
C19_Witness ==
    /\ RetryEnded
    /\ lib.arg.fails = 2
    /\ lib.arg.policy.max_attempts = 3
    /\ lib.st = "returned"
    /\ lib.calls = 3
    /\ Len(lib.slept) = 2

\* C20: the retry delay min(base_delay * exponential_base^(n-1), max_delay)
\* is non-decreasing in the attempt number n >= 1 and never exceeds
\* max_delay; with base 1, factor 2 and cap 10 the delays are 1, 2, 4, 8, 10.
C20_DelayGrowsToCap ==
    lib.fn = "get_delay" =>
        /\ \A n \in 1..Len(lib.slept) : lib.slept[n] <= lib.arg.max_delay
        /\ \A m, n \in 1..Len(lib.slept) : m <= n => lib.slept[m] <= lib.slept[n]
        /\ (lib.arg.base_delay = 1 /\ lib.arg.exponential_base = 2
               /\ lib.arg.max_delay = 10 /\ Len(lib.slept) >= 5)
              => SubSeq(lib.slept, 1, 5) = << 1, 2, 4, 8, 10 >>

\* the delays of base 1, factor 2, cap 10 have reached the cap
C20_Witness ==
    /\ lib.fn = "get_delay"
    /\ lib.arg.base_delay = 1 /\ lib.arg.exponential_base = 2
    /\ lib.arg.max_delay = 10
    /\ Len(lib.slept) = 5
    /\ lib.slept[5] = 10

\* C21: an answer call that repeats the call before it (the same question,
\* the registry unchanged in between, the reasoning component and the tool
\* giving what they gave before) returns the same text: the text does not
\* depend on the request id, the request counter or what earlier calls left.
C21_RepeatedAnswerSameText ==
    (pc = "done" /\ last.set) => outcome = last.outcome

\* the second call of a session repeated the first: each invoked the tool
\* within a span of its own and under a request id of its own
C21_Witness ==
    /\ pc = "done"
    /\ last.set
    /\ request_counter = 2
    /\ HasSpans
    /\ span_seq = 2
    /\ tel_request_id = RequestId(2)
    /\ invocations # <<>>
    /\ outcome.kind = "returned"

\* where in the trace of this answer call the step op was taken
Positions(op) == {i \in 1..Len(trace) : trace[i].op = op}

\* every position of step first lies before every position of step then
Before(first, then) ==
    \A i \in Positions(first), j \in Positions(then) : i < j

\* the request went to the except clause of answer
Errored == pc \in {"handler", "done"} /\ exc # ""

TopLevelWiring ==
    registry_kind = "legacy" /\ telemetry = [kind |-> "spans", fail |-> {}]

\* C23: through the top-level answer(q), which hands the Orchestrator the
\* global registry of agent/registry.py, a plan naming a tool registered
\* there gets that tool invoked and its formatted result returned, not a
\* tool execution error.
C23_GlobalRegistryToolInvoked ==
    (pc = "done" /\ TopLevelWiring /\ tool_call # NoToolCall
       /\ has_tool(tools, tool_call.tool)) =>
        /\ Len(invocations) = 1
        /\ invocations[1].name = tool_call.tool
        /\ ToolReturned =>
              outcome = [kind |-> "returned",
                         text |-> validate_output(invocations[1].out.v)]

\* C24: an answer call is single-shot: it calls the reasoning component at
\* most once and invokes at most one tool, at most once, whatever
\* max_iterations the Orchestrator was given; a finished call that did not
\* fail before the reasoning step has called it exactly once.
C24_SingleShot ==
    /\ Len(llm_calls) <= 1
    /\ Len(invocations) <= 1
    /\ Cardinality(Positions("llm.call")) = Len(llm_calls)
    /\ Cardinality(Positions("tool.execute")) = Len(invocations)
    /\ Cardinality(Positions("process_plan")) <= 1
    /\ (pc = "done" /\ TelemetryWorks) => Len(llm_calls) = 1

\* with the default of three iterations the tool raised and was not invoked
\* again, and the reasoning component was not asked again
C24_Witness ==
    /\ pc = "done"
    /\ max_iterations = DefaultMaxIterations
    /\ ToolRaised
    /\ Len(invocations) = 1
    /\ Len(llm_calls) = 1

\* the text handed to the parser at the n-th parse of repair_json(text): the
\* text itself, then the trimmed text with a closing brace, a closing quote
\* or a closing bracket appended, then with the commas before a closing
\* brace, and last with the commas before a closing bracket, taken out
Candidate(text, n) ==
    CASE n = 1 -> text
      [] n = 2 -> Strip(text) \o "}"
      [] n = 3 -> Strip(text) \o "\""
      [] n = 4 -> Strip(text) \o "]"
      [] n = 5 -> ReSubComma(Strip(text), 1, "}")
      [] OTHER -> ReSubComma(Strip(text), 1, "]")

RepairEnded == lib.fn = "repair_json" /\ lib.st = "returned"

\* C25: when the text does not parse, the repairs are tried in the order
\* closing brace, closing quote, closing bracket, trailing comma before a
\* closing brace, trailing comma before a closing bracket, the parse is
\* retried after each, the first parse that succeeds is the result, and when
\* none does the result is None; nothing is raised.
C25_RepairsInOrder ==
    lib.fn = "repair_json" =>
        /\ lib.st \in {"called", "returned"}
        /\ Len(lib.tried) <= 6
        /\ \A n \in 1..Len(lib.tried) :
              /\ lib.tried[n] = Candidate(lib.arg.s, n)
              /\ (n < Len(lib.tried) \/ lib.st = "called") => ~json_loads(lib.tried[n]).ok
        /\ lib.st = "returned" =>
              /\ lib.ret = repair_json(lib.arg.s)
              /\ IF lib.ret = PyNone
                 THEN lib.arg.s = "" \/ Len(lib.tried) = 6
                 ELSE /\ lib.tried # <<>>
                      /\ json_loads(lib.tried[Len(lib.tried)]).ok
                      /\ lib.ret = json_loads(lib.tried[Len(lib.tried)]).v
        /\ (RepairEnded /\ lib.arg.s = "[1,2,]") =>
              /\ lib.tried = << "[1,2,]", "[1,2,]}", "[1,2,]\"", "[1,2,]]", "[1,2,]", "[1,2]" >>
              /\ lib.ret = PyList(<< Item("", PyInt(1)), Item("", PyInt(2)) >>)
        /\ (RepairEnded /\ lib.arg.s = " {\"a\":1 ") =>
              /\ lib.tried = << " {\"a\":1 ", "{\"a\":1}" >>
              /\ lib.ret = PyDict(<< Item("a", PyInt(1)) >>)
        /\ (RepairEnded /\ lib.arg.s = "\"abc") => lib.ret = PyStr("abc")
        /\ (RepairEnded /\ lib.arg.s \in {"{\"a\":[1,],}", "this is not json at all"}) =>
              lib.ret = PyNone

\* the commas before a closing brace were taken out after the three
\* appended closers had failed, and the text then parsed
C25_Witness ==
    /\ RepairEnded
    /\ Len(lib.tried) = 5
    /\ lib.ret = PyDict(<< Item("tool", PyStr("calc")),
                           Item("args", PyDict(<< Item("expr", PyStr("1+1")) >>)) >>)

ExtractReturned == lib.fn = "extract_tool_call_from_text" /\ lib.st = "returned"

\* the tool call {"tool": tool, "args": {key: value}}
OneArgCall(tool, key, value) ==
    PyDict(<< Item("tool", PyStr(tool)),
              Item("args", PyDict(<< Item(key, PyStr(value)) >>)) >>)

\* the text parses, as it is or repaired, to a map with a "tool" field
StructuredCallIn(text) ==
    repair_json(text).t = "dict" /\ DictHas(repair_json(text), "tool")

\* C26: a text that yields no structured tool call but contains
\* TOOL:<name> <ARG>="<value>" becomes an invocation of <name> with the one
\* argument lower-cased <ARG> = <value>; a structured tool call parsed from
\* the text takes precedence over the pattern; text with neither yields no
\* invocation.
C26_PatternFallback ==
    ExtractReturned =>
        LET text == lib.arg.s
            hit  == ToolPatternSearch(text)
        IN  /\ StructuredCallIn(text) =>
                  /\ lib.ret = repair_json(text)
                  /\ process_plan(lib.arg).kind = "invoke"
                  /\ process_plan(lib.arg).tool = DictGet(repair_json(text), "tool").s
            /\ (~StructuredCallIn(text) /\ hit.found) =>
                  /\ lib.ret = OneArgCall(hit.tool, Lower(hit.arg), hit.value)
                  /\ process_plan(lib.arg) =
                        [kind |-> "invoke", tool |-> hit.tool, msg |-> "",
                         args |-> PyDict(<< Item(Lower(hit.arg), PyStr(hit.value)) >>)]
            /\ (~StructuredCallIn(text) /\ ~hit.found) =>
                  /\ lib.ret = PyNone
                  /\ process_plan(lib.arg).kind = "final"
            /\ text = "TOOL:calc EXPR=\"2+2\"" => lib.ret = OneArgCall("calc", "expr", "2+2")
            /\ text = "say TOOL:calc  Expr_1=\"a b\" and TOOL:kb Q=\"z\""
                  => lib.ret = OneArgCall("calc", "expr_1", "a b")
            /\ text = "{\"tool\":\"calc\"} TOOL:kb Q=\"x\"" => lib.ret = OneArgCall("kb", "q", "x")
            /\ text = "{\"x\":1,\"TOOL:kb Q=\":\"x\"}" => lib.ret = OneArgCall("kb", "q", ":")
            /\ text = "TOOL:calc\tEXPR=\"\"" => lib.ret = OneArgCall("calc", "expr", "")
            /\ text \in {"{\"tool\":\"calc\",\"TOOL:kb Q=\":\"x\"}",
                          "{\"tool\":\"calc\",\"TOOL:kb Q=\":\"x\""}
                  => lib.ret = PyDict(<< Item("tool", PyStr("calc")),
                                         Item("TOOL:kb Q=", PyStr("x")) >>)
            /\ text \in {"tool:calc EXPR=\"1\"", "TOOL:calc EXPR=2", "TOOL: calc EXPR=\"2\"",
                          "[]", "\"abc", "just some random text", ""}
                  => lib.ret = PyNone

\* the pattern after other text, with an upper-case argument name
C26_Witness ==
    /\ ExtractReturned
    /\ ~StructuredCallIn(lib.arg.s)
    /\ lib.ret = OneArgCall("calc", "expr_1", "a b")

\* C27: registry operations of several threads exclude one another: a tool
\* registered under a name is never replaced by a register of the same name
\* made at the same time, and a tool execution that saw the name as present
\* obtains that tool and invokes it.
C27_RegistryOpsExclusive ==
    [][/\ \A name \in {job.name : job \in Jobs} :
            (has_tool(tools, name) /\ has_tool(tools', name)) =>
                get_tool(tools', name) = get_tool(tools, name)
       /\ \A t \in ThreadIds :
            (threads[t].pc = "get_tool" /\ threads'[t].pc # "get_tool") =>
                threads'[t].impl # ""]_vars

\* the threads that have been given a request id
WithId == {t \in ThreadIds : threads[t].id # ""}

\* C28: every answer call gets a request id no other call of the session
\* has, also when calls run at the same time on separate threads, and the
\* request counter is the number of answer calls started.
C28_RequestIdsDistinct ==
    /\ \A t, u \in WithId : t # u => threads[t].id # threads[u].id
    /\ request_counter =
          Cardinality({t \in ThreadIds : threads[t].job.kind = "answer"
                                          /\ threads[t].pc \notin {"id_load", "id_store"}})
          \/ \E t \in ThreadIds : threads[t].pc = "id_store"

\* C29: with answer calls running at the same time on one Orchestrator and
\* its telemetry port, every event carries the request id of the call that
\* emitted it, never the id of another call in flight.
C29_EventsCarryOwnId ==
    \A t \in ThreadIds :
        \A n \in 1..Len(threads[t].tags) : threads[t].tags[n] = threads[t].id

\* the calculator call ended with an invalid-expression error and handed
\* nothing to eval
CalcRejected ==
    /\ lib.st = "raised"
    /\ StartsWithAt(lib.ret.s, 1, "Invalid mathematical expression")
    /\ lib.tried = <<>>

\* C30: the calculator tool hands a string to eval only when the string
\* consists solely of digits, whitespace and + - * / ( ) . %; every other
\* expression that is not answered as a percentage or an addition of
\* numbers, one with "% of" between operands that are not numbers
\* included, is rejected with an invalid-expression error and nothing is
\* evaluated
C30_EvalOnlyArithmetic ==
    (lib.fn = "calc.execute" /\ lib.st # "called") =>
        /\ \A i \in 1..Len(lib.tried) : MatchesCalcChars(lib.tried[i])
        /\ \/ lib.st = "returned"
           \/ lib.st = "evaluated" /\ lib.tried # <<>>
           \/ CalcRejected

====
